---- MODULE Spec2Model ----
(***************************************************************************)
(* The recipe editor's costing: unit normalisation, unit conversion, the   *)
(* total cost of the loaded lines and the pricing figures derived from it  *)
(* (src/src/pages/RecipeEditor.tsx), over the rows of the persistence      *)
(* service.                                                                *)
(*                                                                         *)
(* Numbers.  The program computes with JavaScript numbers: binary floating *)
(* point, every result rounded to the nearest representable value, ties to *)
(* even, with NaN, +Infinity and -Infinity.  The model keeps that          *)
(* arithmetic and its rounding rule; the width of the significand (Prec)   *)
(* and the exponent range (MaxExp, MinExpMag) are bounds of the model.  A  *)
(* finite number is m * 2^e with m odd (or m = 0, e = 0), so equal numbers *)
(* are equal records.  +0 and -0 are one value: the program never divides  *)
(* by a zero and never prints the sign of a zero.                          *)
(*                                                                         *)
(* Strings are sequences of one-character strings; the word Infinity is    *)
(* one symbol of the alphabet.                                             *)
(***************************************************************************)
EXTENDS Integers, Sequences, FiniteSets, TLC

\* Bits of the significand of a number.
Prec == 8
\* Largest binary exponent: a result of magnitude 2^(MaxExp+1) or more is Infinity.
MaxExp == 20
\* The smallest positive number is 2^(-MinExpMag).
MinExpMag == 14

-----------------------------------------------------------------------------
(* JavaScript values *)

NaN == [t |-> "nan", m |-> 0, e |-> 0]
PosInf == [t |-> "inf", m |-> 1, e |-> 0]
NegInf == [t |-> "inf", m |-> -1, e |-> 0]
JNull == [t |-> "null", m |-> 0, e |-> 0]
JUndef == [t |-> "undef", m |-> 0, e |-> 0]
Zero == [t |-> "fin", m |-> 0, e |-> 0]

JStr(s) == [t |-> "str", s |-> s]
JBool(b) == [t |-> "bool", b |-> b]

RECURSIVE Pow2(_)
Pow2(k) == IF k <= 0 THEN 1 ELSE 2 * Pow2(k - 1)

RECURSIVE Pow10(_)
Pow10(k) == IF k <= 0 THEN 1 ELSE 10 * Pow10(k - 1)

RECURSIVE BitLen(_)
BitLen(n) == IF n <= 0 THEN 0 ELSE 1 + BitLen(n \div 2)

Abs(i) == IF i < 0 THEN -i ELSE i

\* m * 2^e in its one record: trailing zero bits of m moved into e.
RECURSIVE Canon(_, _)
Canon(m, e) ==
  IF m = 0 THEN Zero
  ELSE IF m % 2 = 0 THEN Canon(m \div 2, e + 1)
  ELSE [t |-> "fin", m |-> m, e |-> e]

\* An integer of the program text (1, 100, 1000, ...), exact when below 2^Prec
\* or a small multiple of a power of two.
Num(i) == Canon(i, 0)

IsFin(x) == x.t = "fin"
IsNum(x) == x.t \in {"fin", "inf", "nan"}
SignOf(x) == IF x.m < 0 THEN -1 ELSE IF x.m > 0 THEN 1 ELSE 0

\* The number with the significand shifted left to exactly Prec bits.
RECURSIVE Norm(_, _)
Norm(m, e) ==
  IF m = 0 \/ Abs(m) >= Pow2(Prec - 1) THEN [m |-> m, e |-> e]
  ELSE Norm(2 * m, e - 1)

\* Round (q + sticky) * 2^e, q of Prec+2 bits, to the nearest number, ties to even.
RoundBits(q, sticky, e) ==
  LET eq == IF e + 2 > -MinExpMag THEN e + 2 ELSE -MinExpMag
      k == eq - e
  IN IF k > Prec + 2 THEN Zero
     ELSE LET q2 == q \div Pow2(k)
              rem == q % Pow2(k)
              half == Pow2(k - 1)
              up == rem > half \/ (rem = half /\ (sticky \/ q2 % 2 = 1))
              mres == IF up THEN q2 + 1 ELSE q2
          IN IF mres > 0 /\ BitLen(mres) + eq > MaxExp + 1 THEN PosInf
             ELSE Canon(mres, eq)

\* The number nearest to (n / d) * 2^e, for n > 0 and d > 0.
RECURSIVE RoundPos(_, _, _)
RoundPos(n, d, e) ==
  IF n < d * Pow2(Prec + 1) THEN RoundPos(2 * n, d, e - 1)
  ELSE IF n >= d * Pow2(Prec + 2) THEN RoundPos(n, 2 * d, e + 1)
  ELSE RoundBits(n \div d, n % d # 0, e)

Neg(x) ==
  IF x.t \in {"fin", "inf"} THEN [x EXCEPT !.m = -x.m] ELSE x

\* sign * (n / d) * 2^e, rounded.
RoundRat(sign, n, d, e) ==
  IF n = 0 THEN Zero
  ELSE IF sign < 0 THEN Neg(RoundPos(n, d, e)) ELSE RoundPos(n, d, e)

\* x * y
FMul(x, y) ==
  IF x.t = "nan" \/ y.t = "nan" THEN NaN
  ELSE IF x.t = "inf" \/ y.t = "inf"
    THEN IF SignOf(x) * SignOf(y) = 0 THEN NaN
         ELSE IF SignOf(x) * SignOf(y) > 0 THEN PosInf ELSE NegInf
  ELSE RoundRat(SignOf(x) * SignOf(y), Abs(x.m) * Abs(y.m), 1, x.e + y.e)

\* x / y
FDiv(x, y) ==
  IF x.t = "nan" \/ y.t = "nan" THEN NaN
  ELSE IF x.t = "inf"
    THEN IF y.t = "inf" THEN NaN
         ELSE IF SignOf(x) * (IF SignOf(y) < 0 THEN -1 ELSE 1) > 0 THEN PosInf ELSE NegInf
  ELSE IF y.t = "inf" THEN Zero
  ELSE IF y.m = 0
    THEN IF x.m = 0 THEN NaN ELSE IF x.m > 0 THEN PosInf ELSE NegInf
  ELSE RoundRat(SignOf(x) * SignOf(y), Abs(x.m), Abs(y.m), x.e - y.e)

\* x + y
FAdd(x, y) ==
  IF x.t = "nan" \/ y.t = "nan" THEN NaN
  ELSE IF x.t = "inf"
    THEN IF y.t = "inf" /\ y.m # x.m THEN NaN ELSE x
  ELSE IF y.t = "inf" THEN y
  ELSE IF x.m = 0 THEN y
  ELSE IF y.m = 0 THEN x
  ELSE LET a == Norm(x.m, x.e)
           b == Norm(y.m, y.e)
       IN IF a.e - b.e >= Prec + 3 THEN x
          ELSE IF b.e - a.e >= Prec + 3 THEN y
          ELSE LET lo == IF a.e < b.e THEN a.e ELSE b.e
                   s == a.m * Pow2(a.e - lo) + b.m * Pow2(b.e - lo)
               IN RoundRat(IF s < 0 THEN -1 ELSE 1, Abs(s), 1, lo)

\* x - y
FSub(x, y) == FAdd(x, Neg(y))

\* x < y, for numbers; false when either is NaN.
FLt(x, y) ==
  IF x.t = "nan" \/ y.t = "nan" THEN FALSE
  ELSE IF x.t = "inf" THEN x.m < 0 /\ ~(y.t = "inf" /\ y.m < 0)
  ELSE IF y.t = "inf" THEN y.m > 0
  ELSE IF SignOf(x) # SignOf(y) THEN SignOf(x) < SignOf(y)
  ELSE IF x.m = 0 THEN FALSE
  ELSE LET a == Norm(x.m, x.e)
           b == Norm(y.m, y.e)
       IN IF a.e # b.e THEN (IF x.m > 0 THEN a.e < b.e ELSE a.e > b.e)
          ELSE a.m < b.m

FLe(x, y) == FLt(x, y) \/ (x.t # "nan" /\ x = y)
FGt(x, y) == FLt(y, x)

\* Math.max(x, y) and Math.min(x, y)
MathMax(x, y) ==
  IF x.t = "nan" \/ y.t = "nan" THEN NaN ELSE IF FLt(x, y) THEN y ELSE x
MathMin(x, y) ==
  IF x.t = "nan" \/ y.t = "nan" THEN NaN ELSE IF FLt(y, x) THEN y ELSE x

\* Whether (n / d) * 2^e, n > 0 and d > 0, is a number as it stands: rounding it
\* changes nothing and it does not overflow.
RECURSIVE ExactPos(_, _, _)
ExactPos(n, d, e) ==
  IF n < d * Pow2(Prec + 1) THEN ExactPos(2 * n, d, e - 1)
  ELSE IF n >= d * Pow2(Prec + 2) THEN ExactPos(n, 2 * d, e + 1)
  ELSE LET eq == IF e + 2 > -MinExpMag THEN e + 2 ELSE -MinExpMag
           k == eq - e
       IN /\ n % d = 0
          /\ k <= Prec + 2
          /\ (n \div d) % Pow2(k) = 0
          /\ RoundBits(n \div d, FALSE, e).t = "fin"

\* Whether x * y, x / y, x + y, x - y of finite numbers is computed without rounding.
ExactMul(x, y) ==
  /\ IsFin(x) /\ IsFin(y)
  /\ (x.m = 0 \/ y.m = 0 \/ ExactPos(Abs(x.m) * Abs(y.m), 1, x.e + y.e))
ExactDiv(x, y) ==
  /\ IsFin(x) /\ IsFin(y) /\ y.m # 0
  /\ (x.m = 0 \/ ExactPos(Abs(x.m), Abs(y.m), x.e - y.e))
ExactAdd(x, y) ==
  /\ IsFin(x) /\ IsFin(y)
  /\ \/ x.m = 0
     \/ y.m = 0
     \/ LET a == Norm(x.m, x.e)
            b == Norm(y.m, y.e)
            lo == IF a.e < b.e THEN a.e ELSE b.e
        IN /\ a.e - b.e < Prec + 3
           /\ b.e - a.e < Prec + 3
           /\ LET s == a.m * Pow2(a.e - lo) + b.m * Pow2(b.e - lo)
              IN s = 0 \/ ExactPos(Abs(s), 1, lo)
ExactSub(x, y) == ExactAdd(x, Neg(y))

-----------------------------------------------------------------------------
(* Strings *)

WhiteSpace == {" ", "\t", "\n"}
Upper == <<"A", "B", "C", "D", "E", "F", "G", "H", "I", "J", "K", "L", "M",
           "N", "O", "P", "Q", "R", "S", "T", "U", "V", "W", "X", "Y", "Z">>
Lower == <<"a", "b", "c", "d", "e", "f", "g", "h", "i", "j", "k", "l", "m",
           "n", "o", "p", "q", "r", "s", "t", "u", "v", "w", "x", "y", "z">>
Digits == <<"0", "1", "2", "3", "4", "5", "6", "7", "8", "9">>

IsDigit(c) == \E i \in 1..10 : Digits[i] = c
DigitVal(c) == (CHOOSE i \in 1..10 : Digits[i] = c) - 1

\* String.prototype.trim
RECURSIVE TrimStart(_)
TrimStart(s) ==
  IF s # <<>> /\ Head(s) \in WhiteSpace THEN TrimStart(Tail(s)) ELSE s
RECURSIVE TrimEnd(_)
TrimEnd(s) ==
  IF s # <<>> /\ s[Len(s)] \in WhiteSpace THEN TrimEnd(SubSeq(s, 1, Len(s) - 1)) ELSE s
Trim(s) == TrimEnd(TrimStart(s))

\* String.prototype.toLowerCase
LowerChar(c) ==
  IF \E i \in 1..26 : Upper[i] = c THEN Lower[CHOOSE i \in 1..26 : Upper[i] = c] ELSE c
ToLowerCase(s) == [i \in 1..Len(s) |-> LowerChar(s[i])]

\* The characters of a text that is null, undefined or a string: (u ?? '').
OrEmpty(u) == IF u.t = "str" THEN u.s ELSE <<>>

\* Length of the longest prefix of s made of digits.
RECURSIVE DigitPrefix(_)
DigitPrefix(s) ==
  IF s # <<>> /\ IsDigit(Head(s)) THEN 1 + DigitPrefix(Tail(s)) ELSE 0

\* The integer a sequence of digits writes (0 for no digits).
RECURSIVE DigitsValue(_)
DigitsValue(s) ==
  IF s = <<>> THEN 0 ELSE 10 * DigitsValue(SubSeq(s, 1, Len(s) - 1)) + DigitVal(s[Len(s)])

\* A decimal literal without its sign: digits, optional fraction, optional exponent.
DecimalLiteral(neg, b) ==
  LET i == DigitPrefix(b)
      r1 == SubSeq(b, i + 1, Len(b))
      dot == r1 # <<>> /\ Head(r1) = "."
      r2 == IF dot THEN Tail(r1) ELSE r1
      f == IF dot THEN DigitPrefix(r2) ELSE 0
      r3 == SubSeq(r2, f + 1, Len(r2))
      hasExp == r3 # <<>> /\ Head(r3) \in {"e", "E"}
      r4 == IF hasExp THEN Tail(r3) ELSE r3
      expSigned == hasExp /\ r4 # <<>> /\ Head(r4) \in {"+", "-"}
      expNeg == expSigned /\ Head(r4) = "-"
      r5 == IF expSigned THEN Tail(r4) ELSE r4
      x == DigitPrefix(r5)
      ok == i + f >= 1 /\ (IF hasExp THEN x >= 1 /\ x = Len(r5) ELSE r3 = <<>>)
      D == DigitsValue(SubSeq(b, 1, i) \o SubSeq(r2, 1, f))
      ex == (IF ~hasExp THEN 0
             ELSE IF expNeg THEN -DigitsValue(r5) ELSE DigitsValue(r5)) - f
      sign == IF neg THEN -1 ELSE 1
  IN IF ~ok THEN NaN
     ELSE IF ex >= 0 THEN RoundRat(sign, D * Pow10(ex), 1, 0)
     ELSE RoundRat(sign, D, Pow10(-ex), 0)

\* Number(s) for a string s: white space trimmed, the empty string is 0, a
\* signed Infinity or decimal literal is its value, anything else NaN.
StringToNumber(s) ==
  LET t == Trim(s)
      signed == t # <<>> /\ Head(t) \in {"+", "-"}
      neg == signed /\ Head(t) = "-"
      body == IF signed THEN Tail(t) ELSE t
  IN IF t = <<>> THEN Zero
     ELSE IF body = <<"Infinity">> THEN (IF neg THEN NegInf ELSE PosInf)
     ELSE DecimalLiteral(neg, body)

\* Number(x): a number is itself, null is 0, undefined is NaN.
ToNumber(x) ==
  IF x.t = "str" THEN StringToNumber(x.s)
  ELSE IF x.t = "null" THEN Zero
  ELSE IF x.t = "undef" THEN NaN
  ELSE x

\* The decimal digits of a natural number.
RECURSIVE NatDigits(_)
NatDigits(n) ==
  IF n < 10 THEN <<Digits[n + 1]>> ELSE Append(NatDigits(n \div 10), Digits[(n % 10) + 1])

\* The d decimal digits of v, leading zeros kept (v < 10^d).
RECURSIVE PadDigits(_, _)
PadDigits(v, d) ==
  IF d = 0 THEN <<>> ELSE Append(PadDigits(v \div 10, d - 1), Digits[(v % 10) + 1])

\* The fewest fraction digits d, from d on, with which a decimal n / 10^d reads
\* back as a / den, and that decimal's n (the nearest to a / den).
RECURSIVE ShortestDecimal(_, _, _)
ShortestDecimal(a, den, d) ==
  LET n == (2 * a * Pow10(d) + den) \div (2 * den)
  IN IF RoundRat(1, n, Pow10(d), 0) = RoundRat(1, a, den, 0) THEN [n |-> n, d |-> d]
     ELSE ShortestDecimal(a, den, d + 1)

\* String(x) for a number: the shortest decimal digits that read back as x.
NumberToString(x) ==
  IF x.t = "nan" THEN <<"N", "a", "N">>
  ELSE IF x.t = "inf" THEN (IF x.m < 0 THEN <<"-", "Infinity">> ELSE <<"Infinity">>)
  ELSE LET sgn == IF x.m < 0 THEN <<"-">> ELSE <<>>
       IN IF x.e >= 0 THEN sgn \o NatDigits(Abs(x.m) * Pow2(x.e))
          ELSE LET sd == ShortestDecimal(Abs(x.m), Pow2(-x.e), 1)
               IN sgn \o NatDigits(sd.n \div Pow10(sd.d)) \o <<".">>
                      \o PadDigits(sd.n % Pow10(sd.d), sd.d)

-----------------------------------------------------------------------------
(* The helpers of the recipe editor *)

\* toNum(x, fallback)
toNum(x, fallback) ==
  LET n == ToNumber(x) IN IF IsFin(n) THEN n ELSE fallback

\* A safeUnit that keeps the letter case.
safeUnitKeepsCase(u) ==
  LET s == Trim(OrEmpty(u)) IN IF s = <<>> THEN <<"g">> ELSE s

\* safeUnit(u): (u ?? '').trim().toLowerCase() || 'g'
safeUnit(u) ==
  LET s == ToLowerCase(Trim(OrEmpty(u))) IN IF s = <<>> THEN <<"g">> ELSE s

\* A conversion that divides by 1000 whenever the pack unit is kg.
convertAnyToKg(qty, lineUnit, packUnit) ==
  LET u == safeUnit(lineUnit)
      p == safeUnit(packUnit)
  IN IF p = <<"k", "g">> /\ u # p THEN FDiv(qty, Num(1000))
     ELSE IF u = <<"k", "g">> /\ p = <<"g">> THEN FMul(qty, Num(1000))
     ELSE IF u = <<"m", "l">> /\ p = <<"l">> THEN FDiv(qty, Num(1000))
     ELSE IF u = <<"l">> /\ p = <<"m", "l">> THEN FMul(qty, Num(1000))
     ELSE qty

\* A conversion with the factors of kg -> g and l -> ml inverted.
convertSwapped(qty, lineUnit, packUnit) ==
  LET u == safeUnit(lineUnit)
      p == safeUnit(packUnit)
  IN IF u = <<"g">> /\ p = <<"k", "g">> THEN FDiv(qty, Num(1000))
     ELSE IF u = <<"k", "g">> /\ p = <<"g">> THEN FDiv(qty, Num(1000))
     ELSE IF u = <<"m", "l">> /\ p = <<"l">> THEN FDiv(qty, Num(1000))
     ELSE IF u = <<"l">> /\ p = <<"m", "l">> THEN FDiv(qty, Num(1000))
     ELSE qty

\* A conversion whose g -> kg and ml -> l divide by 100.
convertHundred(qty, lineUnit, packUnit) ==
  LET u == safeUnit(lineUnit)
      p == safeUnit(packUnit)
  IN IF u = <<"g">> /\ p = <<"k", "g">> THEN FDiv(qty, Num(100))
     ELSE IF u = <<"k", "g">> /\ p = <<"g">> THEN FMul(qty, Num(1000))
     ELSE IF u = <<"m", "l">> /\ p = <<"l">> THEN FDiv(qty, Num(100))
     ELSE IF u = <<"l">> /\ p = <<"m", "l">> THEN FMul(qty, Num(1000))
     ELSE qty

\* convertQtyToPackUnit(qty, lineUnit, packUnit)
convertQtyToPackUnit(qty, lineUnit, packUnit) ==
  LET u == safeUnit(lineUnit)
      p == safeUnit(packUnit)
  IN IF u = <<"g">> /\ p = <<"k", "g">> THEN FDiv(qty, Num(1000))
     ELSE IF u = <<"k", "g">> /\ p = <<"g">> THEN FMul(qty, Num(1000))
     ELSE IF u = <<"m", "l">> /\ p = <<"l">> THEN FDiv(qty, Num(1000))
     ELSE IF u = <<"l">> /\ p = <<"m", "l">> THEN FMul(qty, Num(1000))
     ELSE qty

-----------------------------------------------------------------------------
(* State *)

VARIABLES
  dbRecipe,       \* the recipes row under edit: portions, selling_price, target_food_cost_pct
  dbLines,        \* the recipe_lines rows of that recipe
  dbIngredients,  \* the ingredients rows
  lines,          \* the editor's loaded lines, in display order
  ingredients,    \* the editor's loaded ingredients
  portions,       \* the text of the Portions field
  sellingPrice,   \* the text of the Selling price field
  targetFC,       \* the text of the Target food cost field
  cQty,           \* a call of convertQtyToPackUnit: its quantity,
  cFrom,          \*   its line unit,
  cTo,            \*   its pack unit,
  cOut,           \*   its result,
  cBack,          \*   and the result converted back from cTo to cFrom
  cNorm,          \* safeUnit(cFrom)
  cNorm2,         \* safeUnit applied to cNorm
  pc,             \* how far the calls have got
  edit,           \* the editor's edit fields, by line id
  ingSearch,      \* the editor's ingredient search field
  toastMsg,       \* the editor's toast message
  lineWrite,      \* the recipe_lines row the editor's last request wrote, or null
  dbRecipes,      \* the recipes rows the list pages read: id, is_archived
  rows,           \* the recipes the list page (Recipes.tsx) shows
  items,          \* the recipes the other list page (part_005) shows
  methodSteps,    \* the method_steps column of the recipe cook mode opens
  steps,          \* cook mode (RecipeCookMode.tsx): the steps shown,
  activeIdx,      \*   the index of the active step, from 0,
  err,            \*   and whether the error screen is up
  cookRecipe,     \* cook mode of part_003: the method_steps of its recipe, or undefined with no recipe,
  cookIdx,        \*   its idx: the index of its step, from 0,
  cookErr,        \*   and whether its error screen is up
  routeId,        \* the editor's id: the recipe id of the URL
  recipe,         \* the editor's recipe: the id of the row loaded, or null
  loading,        \* the editor's loading flag
  inFlight,       \* the loadAll calls that have read their rows and not yet set the state
  issued,         \* how many loadAll calls were made
  savingMeta,     \* the editor's busy flags: of saveMeta,
  uploading,      \*   of uploadPhoto,
  savingAdd,      \*   of addLineInline,
  savingGroup,    \*   of addGroup,
  rowSaving,      \*   of saveRow, by line id,
  reorderSaving,  \*   and of persistOrder
  pending,        \* the calls of those operations that wait for a response
  dbSteps,        \* the recipe_steps rows of the recipe the step builder (part_004) edits
  stepRows,       \* the step builder's steps, in display order
  adding,         \* its addStep calls whose insert has not been answered
  stepCalls,      \* how many addStep calls were made
  stepsError,     \* its stepsError message
  dbSaved,        \* the recipes row the auto-saving editor (part_004) edits, as stored
  shown,          \* that editor's recipe: the row as shown
  saves,          \* its updates sent and not yet applied to the table
  saveCalls,      \* how many saveRecipe calls were made
  saving,         \* its saving flag
  errorMsg        \* its errorMsg

dbVars == <<dbRecipe, dbLines, dbIngredients>>
editorVars == <<lines, ingredients, portions, sellingPrice, targetFC, edit, ingSearch>>
callVars == <<cQty, cFrom, cTo, cOut, cBack, cNorm, cNorm2, pc>>
opVars == <<toastMsg, lineWrite>>
listVars == <<dbRecipes, rows, items>>
cookVars == <<methodSteps, steps, activeIdx, err, cookRecipe, cookIdx, cookErr>>
loadVars == <<routeId, recipe, loading, inFlight, issued>>
flagVars == <<savingMeta, uploading, savingAdd, savingGroup, rowSaving, reorderSaving>>
busyVars == <<flagVars, pending>>
stepVars == <<dbSteps, stepRows, adding, stepCalls, stepsError>>
saveVars == <<dbSaved, shown, saves, saveCalls, saving, errorMsg>>
pageVars == <<cookVars, loadVars, busyVars, stepVars, saveVars>>
notCook == <<dbVars, editorVars, callVars, opVars, listVars, loadVars, busyVars, stepVars, saveVars>>
notLoads == <<callVars, listVars, cookVars, busyVars, stepVars, saveVars>>
notBusy == <<dbVars, callVars, listVars, cookVars, loadVars, stepVars, saveVars>>
notSteps == <<dbVars, editorVars, callVars, opVars, listVars, cookVars, loadVars, busyVars, saveVars>>
notSaves == <<dbVars, editorVars, callVars, opVars, listVars, cookVars, loadVars, busyVars, stepVars>>
vars == <<dbVars, editorVars, callVars, opVars, listVars, pageVars>>

\* An id column: null, or a row id.
JId(x) == [t |-> "id", s |-> x]
\* !x for an id: null and '' are falsy.
Falsy(x) == x.t \in {"null", "undef"} \/ (x.t = "id" /\ x.s = "")

\* A string of the program text.
UnitG == <<"g">>
Str1 == <<"1">>
Str30 == <<"3", "0">>

\* The sequence of the elements of a set of rows, ordered by sort_order then id:
\* .order('sort_order').order('id').
RECURSIVE OrderLines(_)
OrderLines(S) ==
  IF S = {} THEN <<>>
  ELSE LET first == CHOOSE x \in S : \A y \in S :
                      \/ x.sort_order < y.sort_order
                      \/ (x.sort_order = y.sort_order /\ x.id <= y.id)
       IN <<first>> \o OrderLines(S \ {first})

-----------------------------------------------------------------------------
(* The figures the editor computes on every render *)

\* A lookup that leaves out the ingredients switched off.
ingByIdActiveOnly(ings, id) ==
  IF \E i \in ings : i.id = id.s /\ i.is_active # JBool(FALSE)
  THEN CHOOSE i \in ings : i.id = id.s /\ i.is_active # JBool(FALSE)
  ELSE JUndef

\* ingById.get(id): the loaded ingredient with that id, or undefined.
IngByIdOf(ings, id) ==
  IF \E i \in ings : i.id = id.s THEN CHOOSE i \in ings : i.id = id.s ELSE JUndef

\* s.includes(q)
Includes(s, q) ==
  \E k \in 0..(Len(s) - Len(q)) : SubSeq(s, k + 1, k + Len(q)) = q

\* activeIngredients: ingredients.filter(i => i.is_active !== false)
activeIngredients == {i \in ingredients : i.is_active # JBool(FALSE)}

\* filteredIngredients: the active ingredients whose name holds the search text.
filteredIngredients ==
  LET q == ToLowerCase(Trim(ingSearch))
  IN IF q = <<>> THEN activeIngredients
     ELSE {x \in activeIngredients : Includes(ToLowerCase(OrEmpty(x.name)), q)}

\* A lookup that prices a missing ingredient at 1.
NetUnitCostMissingIsOne(ing) == IF ing = JUndef THEN Num(1) ELSE ing.net_unit_cost

\* ing?.net_unit_cost and ing?.pack_unit
NetUnitCostOf(ing) == IF ing = JUndef THEN JUndef ELSE ing.net_unit_cost
PackUnitOf(ing) == IF ing = JUndef THEN JUndef ELSE ing.pack_unit

\* A default pack unit of kg.
OrKg(x) == IF x.t \in {"null", "undef"} THEN JStr(<<"k", "g">>) ELSE x

\* x ?? 'g'
OrG(x) == IF x.t \in {"null", "undef"} THEN JStr(UnitG) ELSE x

\* The body of the loop of totalCost for a line it does not skip: conv * net.
LineAdds(l, ings) ==
  LET ing == IngByIdOf(ings, l.ingredient_id)
      net == toNum(NetUnitCostOf(ing), Zero)
      packUnit == safeUnit(OrG(PackUnitOf(ing)))
      conv == convertQtyToPackUnit(toNum(l.qty, Zero), l.unit, JStr(packUnit))
  IN FMul(conv, net)

\* A loop that skips only the lines without an ingredient id.
SkippedNoTypeTest(l) == Falsy(l.ingredient_id)

\* Whether the loop of totalCost skips the line (its two continue statements).
Skipped(l) == l.line_type # "ingredient" \/ Falsy(l.ingredient_id)

\* totalCost over the lines ls with the ingredients ings: sum += conv * net, in order.
RECURSIVE SumLines(_, _, _)
SumLines(ls, ings, sum) ==
  IF ls = <<>> THEN sum
  ELSE SumLines(Tail(ls), ings,
                IF Skipped(Head(ls)) THEN sum ELSE FAdd(sum, LineAdds(Head(ls), ings)))

TotalCostOf(ls, ings) == SumLines(ls, ings, Zero)

totalCost == TotalCostOf(lines, ingredients)

\* The edit fields loadAll derives from a line.
EditRow(x) ==
  [ingredient_id |-> IF x.ingredient_id.t = "id" THEN x.ingredient_id.s ELSE "",
   qty |-> NumberToString(x.qty),
   unit |-> safeUnit(OrG(x.unit)),
   group_title |-> OrEmpty(x.group_title)]

\* The edit map loadAll builds: m[x.id] for every loaded line x.
EditOf(ls) ==
  [i \in {ls[k].id : k \in DOMAIN ls} |->
     EditRow(ls[CHOOSE k \in DOMAIN ls : ls[k].id = i])]

\* The cost shown on the row of a loaded line: lineCost, from the row's edit
\* fields and the ingredient they name.
RowCost(l) ==
  LET e == IF l.id \in DOMAIN edit THEN edit[l.id] ELSE EditRow(l)
      isIng == l.line_type = "ingredient"
      ing == IF isIng /\ e.ingredient_id # ""
             THEN IngByIdOf(ingredients, JId(e.ingredient_id)) ELSE JUndef
      net == toNum(NetUnitCostOf(ing), Zero)
      packUnit == safeUnit(OrG(PackUnitOf(ing)))
      qtyN == toNum(JStr(e.qty), Zero)
      conv == IF isIng THEN convertQtyToPackUnit(qtyN, JStr(e.unit), JStr(packUnit)) ELSE Zero
  IN IF isIng THEN FMul(conv, net) ELSE Zero

\* The costs shown on the rows, added up in the order of the list.
RECURSIVE SumRowCosts(_, _)
SumRowCosts(ls, sum) ==
  IF ls = <<>> THEN sum ELSE SumRowCosts(Tail(ls), FAdd(sum, RowCost(Head(ls))))

\* A divisor without its floor of 1.
portionsNoFloor == toNum(JStr(portions), Num(1))

portionsN == MathMax(Num(1), toNum(JStr(portions), Num(1)))
cpp == FDiv(totalCost, portionsN)

\* A selling price without its floor of 0.
sellNoFloor == toNum(JStr(sellingPrice), Zero)

sell == MathMax(Zero, toNum(JStr(sellingPrice), Zero))

\* A food cost percentage guarded by sell >= 0.
fcPctGuardGe == IF FLe(Zero, sell) THEN FMul(FDiv(cpp, sell), Num(100)) ELSE JNull

fcPct == IF FGt(sell, Zero) THEN FMul(FDiv(cpp, sell), Num(100)) ELSE JNull
\* A margin with its operands swapped.
marginSwapped == FSub(cpp, sell)

margin == FSub(sell, cpp)
marginPct == IF FGt(sell, Zero) THEN FMul(FDiv(margin, sell), Num(100)) ELSE JNull

target == MathMin(Num(99), MathMax(Num(1), toNum(JStr(targetFC), Num(30))))
suggestedPrice == IF FGt(target, Zero) THEN FDiv(cpp, FDiv(target, Num(100))) ELSE Zero

-----------------------------------------------------------------------------
(* The rows and the inputs of the model *)

\* Most lines of a recipe.
MaxLines == 3

\* The ingredients table: i1 is priced 4 per kg, i2 1 per unit with no pack
\* unit, i3 has a pack unit and no net unit cost.
Catalogue ==
  { [id |-> "i1", name |-> JStr(<<"O", "x">>), pack_unit |-> JStr(<<"k", "g">>),
     net_unit_cost |-> Num(4), is_active |-> JBool(TRUE)],
    [id |-> "i2", name |-> JNull, pack_unit |-> JNull,
     net_unit_cost |-> Num(1), is_active |-> JBool(TRUE)],
    [id |-> "i3", name |-> JStr(<<"o", "x", "y">>), pack_unit |-> JStr(<<" ", "L">>),
     net_unit_cost |-> JNull, is_active |-> JBool(FALSE)] }

\* The same table with i1 switched off and the flag of i2 not set.
RetiredCatalogue ==
  { IF i.id = "i1" THEN [i EXCEPT !.is_active = JBool(FALSE)]
    ELSE IF i.id = "i2" THEN [i EXCEPT !.is_active = JNull]
    ELSE i : i \in Catalogue }

\* What the ingredient search field can hold.
SearchInputs == { <<>>, <<" ">>, <<"o", "x">>, <<" ", "O", "X">>, <<"x", "y">>, <<"z">> }

\* What a recipe_lines row can hold besides its id and sort_order.
LineChoices ==
  << [line_type |-> "ingredient", ingredient_id |-> JId("i1"), qty |-> Num(500), unit |-> JStr(<<"g">>),
      group_title |-> JNull],
     [line_type |-> "ingredient", ingredient_id |-> JId("i2"), qty |-> Num(300), unit |-> JNull,
      group_title |-> JNull],
     [line_type |-> "ingredient", ingredient_id |-> JId("i2"), qty |-> Num(1), unit |-> JStr(<<"G", " ">>),
      group_title |-> JNull],
     [line_type |-> "group", ingredient_id |-> JId("i1"), qty |-> Num(500), unit |-> JStr(<<"g">>),
      group_title |-> JStr(<<"S">>)],
     [line_type |-> "ingredient", ingredient_id |-> JNull, qty |-> Num(2), unit |-> JStr(<<"k", "g">>),
      group_title |-> JNull],
     [line_type |-> "ingredient", ingredient_id |-> JId("i3"), qty |-> Num(3), unit |-> JStr(<<"m", "l">>),
      group_title |-> JNull],
     [line_type |-> "ingredient", ingredient_id |-> JId("i2"), qty |-> Canon(1, MaxExp), unit |-> JStr(<<"k", "g">>),
      group_title |-> JNull] >>

\* The row with the k-th place of a recipe and the c-th content.
Row(k, c) ==
  [id |-> k, sort_order |-> 10 * k,
   line_type |-> LineChoices[c].line_type, ingredient_id |-> LineChoices[c].ingredient_id,
   qty |-> LineChoices[c].qty, unit |-> LineChoices[c].unit,
   group_title |-> LineChoices[c].group_title]

\* The recipe_lines tables of at most MaxLines rows, the contents of a table
\* following the order of LineChoices (a content may repeat).
LineTables ==
  UNION { { {Row(k, f[k]) : k \in 1..n} :
            f \in { g \in [1..n -> 1..Len(LineChoices)] : \A k \in 1..(n - 1) : g[k] <= g[k + 1] } } :
          n \in 0..MaxLines }

\* A line of 2 kg of i1, which costs 8.
EightLine ==
  [id |-> 1, sort_order |-> 10, line_type |-> "ingredient", ingredient_id |-> JId("i1"),
   qty |-> Num(2), unit |-> JStr(<<"k", "g">>), group_title |-> JNull]

\* The recipe_lines tables of the pricing runs: totals 0, 8, 2 and 300 + 1.
PricingLineTables == { {}, {EightLine}, {Row(1, 1)}, {Row(1, 2), Row(2, 3)} }

\* The recipes rows: nothing set, everything set, 0 portions, no price.
RecipeRows ==
  { [portions |-> JNull, selling_price |-> JNull, target_food_cost_pct |-> JNull],
    [portions |-> Num(4), selling_price |-> Num(5), target_food_cost_pct |-> Num(25)],
    [portions |-> Num(0), selling_price |-> JNull, target_food_cost_pct |-> Num(25)],
    [portions |-> Num(4), selling_price |-> JNull, target_food_cost_pct |-> JNull] }

\* What the user types into the Portions field.
PortionInputs ==
  { <<>>, <<" ">>, <<"a", "b", "c">>, <<"0">>, <<"-", "3">>, <<"Infinity">>,
    <<"0", ".", "5">>, <<"1">>, <<"2">>, <<"4">>, <<"2", ".", "5">>, <<" ", "4", " ">>,
    <<"1", "e", "3">>, <<"4", "x">> }

\* What the user types into the Selling price field.
SellInputs ==
  { <<>>, <<"x">>, <<"0">>, <<"-", "5">>, <<"5">>, <<"4">>, <<"3">>, <<"2", ".", "5">>,
    <<"-", "Infinity">>, <<"Infinity">>, <<"0", ".", "1">> }

\* What the user types into the Target food cost field.
TargetInputs ==
  { <<>>, <<" ">>, <<"a", "b", "c">>, <<"0">>, <<"-", "1", "0">>, <<"2", "5">>,
    <<"1", "5", "0">>, <<"Infinity">> }

\* A line of the largest quantity, in g, of i2 (1 per g): the largest total.
HugeLine ==
  [id |-> 1, sort_order |-> 10, line_type |-> "ingredient", ingredient_id |-> JId("i2"),
   qty |-> Canon(1, MaxExp), unit |-> JStr(<<"g">>), group_title |-> JNull]

\* The recipe_lines tables of the runs that save the recipe.
MetaLineTables == { {EightLine}, {HugeLine} }

\* The quantities of the calls of convertQtyToPackUnit: 0, 1, 3, 5, 500, 0.5, 1.1,
\* 255, -2, the largest quantities short of Infinity and the smallest above 0.
QtyInputs ==
  { Zero, Num(1), Num(3), Num(5), Num(500), StringToNumber(<<"0", ".", "5">>),
    StringToNumber(<<"1", ".", "1">>), Num(255), Num(-2),
    Canon(1, MaxExp), Canon(Pow2(Prec) - 1, MaxExp - Prec + 1),
    Canon(1, -MinExpMag) }

\* The units of the calls: null, and unit texts.
UnitInputs ==
  { JNull, JStr(<<>>), JStr(<<" ">>), JStr(<<"g">>), JStr(<<"k", "g">>), JStr(<<"m", "l">>),
    JStr(<<"l">>), JStr(<<"p", "c", "s">>), JStr(<<" ", "K", "G", " ">>), JStr(<<"M", "l">>),
    JStr(<<"L", "\t">>), JStr(<<"G">>), JStr(<<"C", "u", "p">>), JStr(<<"k", " ", "g">>) }

-----------------------------------------------------------------------------
(* Initial states *)

\* The editor as constructed (its useState values).
EditorInit ==
  /\ lines = <<>>
  /\ ingredients = {}
  /\ portions = Str1
  /\ sellingPrice = <<>>
  /\ targetFC = Str30
  /\ edit = <<>>
  /\ ingSearch = <<>>
  /\ toastMsg = ""
  /\ lineWrite = JNull

\* No recipe list open, no recipes row but the one under edit.
ListIdle ==
  /\ dbRecipes = {}
  /\ rows = {}
  /\ items = {}

\* Cook mode as constructed (its useState values), over a recipe with no method.
CookInit ==
  /\ steps = <<>> /\ activeIdx = 0 /\ err = FALSE
  /\ cookRecipe = JUndef /\ cookIdx = 0 /\ cookErr = FALSE

\* The editor on the recipe of the model, no load of its own under way.
LoadsIdle ==
  /\ routeId = "r1" /\ recipe = JNull /\ loading = FALSE
  /\ inFlight = {} /\ issued = 0

\* The busy flags as constructed, no operation started.
BusyIdle ==
  /\ savingMeta = FALSE /\ uploading = FALSE /\ savingAdd = FALSE /\ savingGroup = FALSE
  /\ rowSaving = <<>> /\ reorderSaving = FALSE
  /\ pending = {}

\* The step builder as constructed, over a recipe with no steps.
StepsIdle ==
  /\ dbSteps = {} /\ stepRows = <<>> /\ adding = {} /\ stepCalls = 0 /\ stepsError = ""

\* The auto-saving editor as constructed: no recipe loaded.
SavesIdle ==
  /\ dbSaved = JNull /\ shown = JNull /\ saves = {} /\ saveCalls = 0
  /\ saving = FALSE /\ errorMsg = ""

\* The variants of part_004 closed.
VariantsIdle == StepsIdle /\ SavesIdle

\* No other page open, no request in flight.
PagesIdle ==
  /\ methodSteps = JNull
  /\ CookInit
  /\ LoadsIdle
  /\ BusyIdle
  /\ VariantsIdle

\* No call of the pure functions under way.
CallIdle ==
  /\ cQty = Zero /\ cFrom = JNull /\ cTo = JNull
  /\ cOut = JUndef /\ cBack = JUndef /\ cNorm = JUndef /\ cNorm2 = JUndef
  /\ pc = "idle"

InitTotal ==
  /\ dbRecipe = [portions |-> Num(4), selling_price |-> Num(5), target_food_cost_pct |-> Num(25)]
  /\ dbLines \in LineTables
  /\ dbIngredients = Catalogue
  /\ EditorInit
  /\ ListIdle
  /\ PagesIdle
  /\ CallIdle

InitPricing ==
  /\ dbRecipe \in RecipeRows
  /\ dbLines \in PricingLineTables
  /\ dbIngredients = Catalogue
  /\ EditorInit
  /\ ListIdle
  /\ PagesIdle
  /\ CallIdle

InitMeta ==
  /\ dbRecipe \in RecipeRows
  /\ dbLines \in MetaLineTables
  /\ dbIngredients = Catalogue
  /\ EditorInit
  /\ ListIdle
  /\ PagesIdle
  /\ CallIdle

\* The most rows the recipe_lines table holds while lines are added.
MaxEditorLines == 2

\* A line of -2 g of i2, whose pack unit is g and whose net unit cost is 1.
NegLine ==
  [id |-> 1, sort_order |-> 10, line_type |-> "ingredient", ingredient_id |-> JId("i2"),
   qty |-> Num(-2), unit |-> JStr(<<"g">>), group_title |-> JNull]

\* The recipe_lines tables the line editor opens on: none, a line that costs 8,
\* a line of negative quantity, a line without an ingredient, a group.
EditorLineTables == { {}, {EightLine}, {NegLine}, {Row(1, 5)}, {Row(1, 4)} }

\* What the add-line form can hold: addIngredientId, addQty.
AddIngredientInputs == { "", "i1" }
AddQtyInputs == { <<"2">>, <<"-", "2">> }
\* What the group title field can hold.
GroupTitleInputs == { <<" ">>, <<"T", " ">> }

\* What the edit fields of a row can be changed to.
EditInputs ==
  { [ingredient_id |-> "i1", qty |-> <<"3">>, unit |-> <<"g">>, group_title |-> <<" ", "T">>],
    [ingredient_id |-> "", qty |-> <<"-", "3">>, unit |-> <<>>, group_title |-> <<" ">>] }

InitLines ==
  /\ dbRecipe = [portions |-> Num(1), selling_price |-> JNull, target_food_cost_pct |-> JNull]
  /\ dbLines \in EditorLineTables
  /\ dbIngredients = Catalogue
  /\ EditorInit
  /\ ListIdle
  /\ PagesIdle
  /\ CallIdle

\* The most rows of the recipes table.
MaxRecipes == 3

\* The recipes tables the list pages open on: rows of distinct ids, archived or not.
RecipeTables ==
  { T \in SUBSET [id : 1..MaxRecipes, is_archived : BOOLEAN] :
      \A a, b \in T : a.id = b.id => a = b }

InitRecipes ==
  /\ dbRecipe = [portions |-> Num(1), selling_price |-> JNull, target_food_cost_pct |-> JNull]
  /\ dbLines = {}
  /\ dbIngredients = Catalogue
  /\ EditorInit
  /\ dbRecipes \in RecipeTables
  /\ rows = {}
  /\ items = {}
  /\ PagesIdle
  /\ CallIdle

InitPicker ==
  /\ dbRecipe = [portions |-> Num(1), selling_price |-> JNull, target_food_cost_pct |-> JNull]
  /\ dbLines \in LineTables
  /\ dbIngredients \in {Catalogue, RetiredCatalogue}
  /\ EditorInit
  /\ ListIdle
  /\ PagesIdle
  /\ CallIdle

\* The sort_order values of the stored rows the reordering opens on.
SortChoices == {10, 15}

\* The recipe_lines tables of the reordering: at most MaxLines rows, the k-th
\* with the k-th content, of any sort_order among SortChoices.
OrderTables ==
  UNION { { {[Row(k, k) EXCEPT !.sort_order = so[k]] : k \in 1..n} :
            so \in [1..n -> SortChoices] } :
          n \in 0..MaxLines }

InitOrder ==
  /\ dbRecipe = [portions |-> Num(1), selling_price |-> JNull, target_food_cost_pct |-> JNull]
  /\ dbLines \in OrderTables
  /\ dbIngredients = Catalogue
  /\ EditorInit
  /\ ListIdle
  /\ PagesIdle
  /\ CallIdle

InitAdd ==
  /\ dbRecipe = [portions |-> Num(1), selling_price |-> JNull, target_food_cost_pct |-> JNull]
  /\ dbLines \in {T \in OrderTables : Cardinality(T) <= MaxEditorLines}
  /\ dbIngredients = Catalogue
  /\ EditorInit
  /\ ListIdle
  /\ PagesIdle
  /\ CallIdle

InitCopy ==
  /\ dbRecipe = [portions |-> Num(1), selling_price |-> JNull, target_food_cost_pct |-> JNull]
  /\ dbLines \in OrderTables
  /\ dbIngredients = Catalogue
  /\ EditorInit
  /\ ListIdle
  /\ PagesIdle
  /\ CallIdle

\* A line of the largest quantity, in kg, that names no ingredient.
HugeOrphanLine ==
  [id |-> 1, sort_order |-> 10, line_type |-> "ingredient", ingredient_id |-> JNull,
   qty |-> Canon(1, MaxExp), unit |-> JStr(<<"k", "g">>), group_title |-> JNull]

InitRows ==
  /\ dbRecipe = [portions |-> Num(1), selling_price |-> JNull, target_food_cost_pct |-> JNull]
  /\ dbLines \in LineTables \cup {{HugeOrphanLine}}
  /\ dbIngredients = Catalogue
  /\ EditorInit
  /\ ListIdle
  /\ PagesIdle
  /\ CallIdle

InitConvert ==
  /\ dbRecipe = [portions |-> Num(1), selling_price |-> JNull, target_food_cost_pct |-> JNull]
  /\ dbLines = {}
  /\ dbIngredients = {}
  /\ EditorInit
  /\ ListIdle
  /\ PagesIdle
  /\ cQty \in QtyInputs /\ cFrom \in UnitInputs /\ cTo \in UnitInputs
  /\ cOut = JUndef /\ cBack = JUndef /\ cNorm = JUndef /\ cNorm2 = JUndef
  /\ pc = "start"

-----------------------------------------------------------------------------
(* Operations *)

\* What loadAll(id) sets, its three reads succeeding and the recipe read being
\* r: the lines in order, the ingredients, and the form fields from the recipe.
LoadOf(r, L) ==
  /\ lines' = OrderLines(L)
  /\ edit' = EditOf(OrderLines(L))
  /\ ingredients' = dbIngredients
  /\ portions' = NumberToString(IF r.portions.t = "null" THEN Num(1) ELSE r.portions)
  /\ sellingPrice' = IF r.selling_price.t = "null" THEN <<>>
                     ELSE NumberToString(r.selling_price)
  /\ targetFC' = IF r.target_food_cost_pct.t = "null" THEN Str30
                 ELSE NumberToString(r.target_food_cost_pct)

LoadFrom(r) == LoadOf(r, dbLines)

\* loadAll(id)
LoadAll ==
  /\ LoadFrom(dbRecipe)
  /\ UNCHANGED <<opVars, listVars, pageVars, dbVars, ingSearch, callVars>>

\* The Portions field is edited: setPortions(e.target.value).
SetPortions ==
  /\ \E s \in PortionInputs : portions' = s
  /\ UNCHANGED <<opVars, listVars, pageVars, dbVars, lines, ingredients, ingSearch, edit, sellingPrice, targetFC, callVars>>

\* The Selling price field is edited: setSellingPrice(e.target.value).
SetSellingPrice ==
  /\ \E s \in SellInputs : sellingPrice' = s
  /\ UNCHANGED <<opVars, listVars, pageVars, dbVars, lines, ingredients, ingSearch, edit, portions, targetFC, callVars>>

\* The Target food cost field is edited: setTargetFC(e.target.value).
SetTargetFC ==
  /\ \E s \in TargetInputs : targetFC' = s
  /\ UNCHANGED <<opVars, listVars, pageVars, dbVars, lines, ingredients, ingSearch, edit, portions, sellingPrice, callVars>>

\* The payload of saveMeta: the three columns of the recipe that the costing reads.
MetaPayload ==
  [portions |-> MathMax(Num(1), toNum(JStr(portions), Num(1))),
   selling_price |-> IF Trim(sellingPrice) = <<>> THEN JNull
                     ELSE MathMax(Zero, toNum(JStr(sellingPrice), Zero)),
   target_food_cost_pct |-> MathMin(Num(99), MathMax(Num(1), toNum(JStr(targetFC), Num(30))))]

\* saveMeta(), the update succeeding: the payload is written to the recipe and
\* loadAll(id) reads it back.
SaveMeta ==
  /\ dbRecipe' = MetaPayload
  /\ LoadFrom(MetaPayload)
  /\ toastMsg' = "Saved"
  /\ UNCHANGED <<lineWrite, listVars, pageVars, dbLines, dbIngredients, ingSearch, callVars>>

\* The ingredients page deletes an ingredient: onDelete, confirmed.
DeleteIngredient ==
  /\ \E i \in dbIngredients : dbIngredients' = dbIngredients \ {i}
  /\ UNCHANGED <<opVars, listVars, pageVars, dbRecipe, dbLines, editorVars, callVars>>

\* A call convertQtyToPackUnit(cQty, cFrom, cTo).
Convert ==
  /\ pc = "start"
  /\ cOut' = convertQtyToPackUnit(cQty, cFrom, cTo)
  /\ pc' = "converted"
  /\ UNCHANGED <<opVars, listVars, pageVars, dbVars, editorVars, cQty, cFrom, cTo, cBack, cNorm, cNorm2>>

\* The result converted back: convertQtyToPackUnit(cOut, cTo, cFrom).
ConvertBack ==
  /\ pc = "converted"
  /\ cBack' = convertQtyToPackUnit(cOut, cTo, cFrom)
  /\ pc' = "back"
  /\ UNCHANGED <<opVars, listVars, pageVars, dbVars, editorVars, cQty, cFrom, cTo, cOut, cNorm, cNorm2>>

\* A call safeUnit(cFrom).
Normalize ==
  /\ pc = "start"
  /\ cNorm = JUndef
  /\ cNorm' = JStr(safeUnit(cFrom))
  /\ UNCHANGED <<opVars, listVars, pageVars, dbVars, editorVars, cQty, cFrom, cTo, cOut, cBack, cNorm2, pc>>

\* safeUnit applied to its own result.
NormalizeAgain ==
  /\ cNorm # JUndef
  /\ cNorm2 = JUndef
  /\ cNorm2' = JStr(safeUnit(cNorm))
  /\ UNCHANGED <<opVars, listVars, pageVars, dbVars, editorVars, cQty, cFrom, cTo, cOut, cBack, cNorm, pc>>

\* A largest sort_order that is always 0.
NoMaxSort(ls) == 0

\* maxSort: Math.max(...lines.map(x => toNum(x.sort_order, 0))), or 0 without lines.
MaxSortOf(ls) ==
  IF ls = <<>> THEN 0
  ELSE CHOOSE m \in {ls[k].sort_order : k \in DOMAIN ls} :
         \A k \in DOMAIN ls : ls[k].sort_order <= m

\* The line loaded under an id: lines.find(x => x.id === lineId).
LineById(lineId) == lines[CHOOSE k \in DOMAIN lines : lines[k].id = lineId]

\* A request turned down before any write: the toast, and nothing else.
Rejected(msg) ==
  /\ toastMsg' = msg
  /\ lineWrite' = JNull
  /\ UNCHANGED <<dbVars, editorVars, callVars, listVars, pageVars>>

\* A request whose write fails: the catch shows the error, and nothing else.
Failed(msg) ==
  /\ toastMsg' = msg
  /\ lineWrite' = JNull
  /\ UNCHANGED <<dbVars, editorVars, callVars, listVars, pageVars>>

\* supabase.from('recipe_lines').insert(payload): it succeeds, the table
\* giving the row an id of its own, and the toast and loadAll(id) follow, the
\* search field left holding search; or it fails. The table holds at most cap rows.
InsertedUpTo(cap, payload, msg, search, failMsg) ==
  \/ /\ Cardinality(dbLines) < cap
     /\ \E nid \in (1..cap) \ {d.id : d \in dbLines} :
          LET row == [id |-> nid, sort_order |-> payload.sort_order,
                      line_type |-> payload.line_type, ingredient_id |-> payload.ingredient_id,
                      qty |-> payload.qty, unit |-> payload.unit,
                      group_title |-> payload.group_title]
          IN /\ dbLines' = dbLines \cup {row}
             /\ lineWrite' = row
             /\ LoadOf(dbRecipe, dbLines \cup {row})
     /\ toastMsg' = msg
     /\ ingSearch' = search
     /\ UNCHANGED <<dbRecipe, dbIngredients, callVars, listVars, pageVars>>
  \/ Failed(failMsg)

Inserted(payload, msg, search, failMsg) ==
  InsertedUpTo(MaxEditorLines, payload, msg, search, failMsg)

\* supabase.from('recipe_lines').update(...).eq('id', lineId): it succeeds, row
\* being the stored row with the update applied, and the toast and
\* loadAll(id) follow; or it fails.
Updated(lineId, row, msg, failMsg) ==
  \/ /\ dbLines' = {d \in dbLines : d.id # lineId} \cup {row}
     /\ lineWrite' = row
     /\ LoadOf(dbRecipe, {d \in dbLines : d.id # lineId} \cup {row})
     /\ toastMsg' = msg
     /\ UNCHANGED <<dbRecipe, dbIngredients, ingSearch, callVars, listVars, pageVars>>
  \/ Failed(failMsg)

\* addLineInline(), the add-line form holding addIngredientId, addQty, addUnit.
AddLineInline ==
  \E addIngredientId \in AddIngredientInputs, addQty \in AddQtyInputs :
    LET qty == MathMax(Zero, toNum(JStr(addQty), Zero))
    IN IF addIngredientId = "" THEN Rejected("Pick an ingredient first")
       ELSE IF FLe(qty, Zero) THEN Rejected("Qty must be > 0")
       ELSE Inserted([ingredient_id |-> JId(addIngredientId), qty |-> qty,
                      unit |-> JStr(safeUnit(JStr(<<"k", "g">>))),
                      sort_order |-> MaxSortOf(lines) + 10,
                      line_type |-> "ingredient", group_title |-> JNull],
                     "Ingredient added", <<>>, "Add failed")

\* addGroup(), the group title field holding groupTitle.
AddGroup ==
  \E groupTitle \in GroupTitleInputs :
    LET title == Trim(groupTitle)
    IN IF title = <<>> THEN Rejected("Write group title first")
       ELSE Inserted([ingredient_id |-> JNull, qty |-> Zero, unit |-> JStr(UnitG),
                      sort_order |-> MaxSortOf(lines) + 10,
                      line_type |-> "group", group_title |-> JStr(title)],
                     "Group added", ingSearch, "Add group failed")

\* The fields of a row are edited: setEdit(p => ({...p, [l.id]: {...}})).
SetEdit ==
  /\ \E lineId \in DOMAIN edit, e \in EditInputs : edit' = [edit EXCEPT ![lineId] = e]
  /\ UNCHANGED <<opVars, listVars, pageVars, dbVars, lines, ingredients, ingSearch, portions, sellingPrice,
                 targetFC, callVars>>

\* saveRow(lineId) of a line the editor shows.
SaveRow ==
  \E lineId \in {lines[k].id : k \in DOMAIN lines} :
    LET row == edit[lineId]
        current == LineById(lineId)
        stored == CHOOSE d \in dbLines : d.id = lineId
        title == Trim(row.group_title)
        qty == MathMax(Zero, toNum(JStr(row.qty), Zero))
        unit == safeUnit(JStr(IF row.unit = <<>> THEN UnitG ELSE row.unit))
    IN IF current.line_type = "group"
       THEN IF title = <<>> THEN Rejected("Group title required")
            ELSE Updated(lineId, [stored EXCEPT !.group_title = JStr(title)], "Group saved", "Save line failed")
       ELSE IF row.ingredient_id = "" THEN Rejected("Pick an ingredient")
            ELSE IF FLe(qty, Zero) THEN Rejected("Qty must be > 0")
            ELSE Updated(lineId,
                         [stored EXCEPT !.ingredient_id = JId(row.ingredient_id),
                                        !.qty = qty, !.unit = JStr(unit)],
                         "Line saved", "Save line failed")

\* duplicateLine(lineId) of a line the editor shows, the table holding at most
\* cap rows.
DuplicateLineUpTo(cap) ==
  \E lineId \in {lines[k].id : k \in DOMAIN lines} :
    LET src == LineById(lineId)
    IN IF src.line_type = "group"
       THEN InsertedUpTo(cap,
                         [ingredient_id |-> JNull, qty |-> Zero, unit |-> JStr(UnitG),
                          line_type |-> "group",
                          group_title |-> JStr(Trim(IF src.group_title.t = "str"
                                                    THEN src.group_title.s
                                                    ELSE <<"G", "r", "o", "u", "p">>)),
                          sort_order |-> src.sort_order + 5],
                         "Duplicated", ingSearch, "Duplicate failed")
       ELSE InsertedUpTo(cap,
                         [ingredient_id |-> src.ingredient_id, qty |-> src.qty,
                          unit |-> JStr(safeUnit(src.unit)),
                          line_type |-> "ingredient", group_title |-> JNull,
                          sort_order |-> src.sort_order + 5],
                         "Duplicated", ingSearch, "Duplicate failed")

DuplicateLine == DuplicateLineUpTo(MaxEditorLines)

\* duplicateLine(lineId) in a table of at most MaxLines rows.
DuplicateAmongLines == DuplicateLineUpTo(MaxLines)

\* load() of the recipe list (Recipes.tsx): the rows that are not archived.
ListLoadOf(T) == rows' = {r \in T : r.is_archived = FALSE}

ListLoad ==
  /\ ListLoadOf(dbRecipes)
  /\ UNCHANGED <<dbVars, editorVars, callVars, opVars, pageVars, dbRecipes, items>>

\* createNew() of the recipe list: the insert succeeds and the page leaves
\* for the new recipe.
CreateNew ==
  /\ Cardinality(dbRecipes) < MaxRecipes
  /\ \E nid \in (1..MaxRecipes) \ {r.id : r \in dbRecipes} :
       dbRecipes' = dbRecipes \cup {[id |-> nid, is_archived |-> FALSE]}
  /\ UNCHANGED <<dbVars, editorVars, callVars, opVars, pageVars, rows, items>>

\* archive(id) of a recipe the list shows: update({is_archived: true}), then load().
Archive ==
  /\ \E r \in rows :
       LET T == {[x EXCEPT !.is_archived = (x.id = r.id) \/ x.is_archived] : x \in dbRecipes}
       IN dbRecipes' = T /\ ListLoadOf(T)
  /\ UNCHANGED <<dbVars, editorVars, callVars, opVars, pageVars, items>>

\* load() of the recipe list of part_005: every row of the table.
ItemsLoadOf(T) == items' = T

ItemsLoad ==
  /\ ItemsLoadOf(dbRecipes)
  /\ UNCHANGED <<dbVars, editorVars, callVars, opVars, pageVars, dbRecipes, rows>>

\* onDelete(r) of a recipe the list of part_005 shows, the confirm accepted:
\* delete().eq('id', r.id), then load().
OnDelete ==
  /\ \E r \in items :
       LET T == {x \in dbRecipes : x.id # r.id}
       IN dbRecipes' = T /\ ItemsLoadOf(T)
  /\ UNCHANGED <<dbVars, editorVars, callVars, opVars, pageVars, rows>>

\* The search field is edited: setIngSearch(e.target.value).
SetIngSearch ==
  /\ \E s \in SearchInputs : ingSearch' = s
  /\ UNCHANGED <<opVars, listVars, pageVars, dbVars, lines, ingredients, edit, portions, sellingPrice,
                 targetFC, callVars>>

\* A list that is not reordered.
NotSwapped(ls, i, j) == ls

\* [next[idx], next[j]] = [next[j], next[idx]]
Swapped(ls, i, j) ==
  [k \in DOMAIN ls |-> IF k = i THEN ls[j] ELSE IF k = j THEN ls[i] ELSE ls[k]]

\* The position of a line in the loaded list: lines.findIndex(x => x.id === lineId).
IndexOf(lineId) == CHOOSE k \in DOMAIN lines : lines[k].id = lineId

\* The table after the updates of persistOrder(ordered) that succeeded: the
\* row of ordered[idx], for idx among done, gets sort_order 10 * idx.
Reordered(T, ordered, done) ==
  { IF \E k \in done : ordered[k].id = d.id
    THEN [d EXCEPT !.sort_order = 10 * (CHOOSE k \in done : ordered[k].id = d.id)]
    ELSE d : d \in T }

\* persistOrder(ordered): one update per line, all sent at once; the updates
\* of done succeed. With all of them done the toast and loadAll(id) follow,
\* otherwise the error is shown.
PersistOrder(ordered, done) ==
  /\ dbLines' = Reordered(dbLines, ordered, done)
  /\ IF done = DOMAIN ordered
     THEN /\ LoadOf(dbRecipe, Reordered(dbLines, ordered, done))
          /\ toastMsg' = "Order saved"
     ELSE /\ lines' = ordered
          /\ toastMsg' = "Reorder failed"
          /\ UNCHANGED <<ingredients, portions, sellingPrice, targetFC, edit>>
  /\ UNCHANGED <<dbRecipe, dbIngredients, ingSearch, lineWrite, callVars, listVars, pageVars>>

\* Which of n updates sent at once succeed: all, none, or the first alone.
WriteOutcomes(n) == { 1..n, {}, {1} }

\* moveLine(lineId, dir) of a line the editor shows.
MoveLineOf(lineId, dir) ==
  LET idx == IndexOf(lineId)
      j == idx + dir
  IN IF j < 1 \/ j > Len(lines) THEN UNCHANGED vars
     ELSE \E done \in WriteOutcomes(Len(lines)) : PersistOrder(Swapped(lines, idx, j), done)

MoveLine ==
  \E lineId \in {lines[k].id : k \in DOMAIN lines}, dir \in {-1, 1} : MoveLineOf(lineId, dir)

\* deleteLine(lineId) of a line the editor shows: the delete succeeds, then
\* the toast and loadAll(id), or it fails and the error is shown.
DeleteLine ==
  \E lineId \in {lines[k].id : k \in DOMAIN lines} :
    \/ /\ dbLines' = {d \in dbLines : d.id # lineId}
       /\ LoadOf(dbRecipe, {d \in dbLines : d.id # lineId})
       /\ toastMsg' = "Deleted"
       /\ UNCHANGED <<dbRecipe, dbIngredients, ingSearch, lineWrite, callVars, listVars, pageVars>>
    \/ /\ toastMsg' = "Delete failed"
       /\ UNCHANGED <<dbVars, editorVars, lineWrite, callVars, listVars, pageVars>>

-----------------------------------------------------------------------------
(* Cook mode (RecipeCookMode.tsx, and its variant part_003) *)

\* A method_steps column that is not null: an array of texts and nulls.
JArr(a) == [t |-> "arr", a |-> a]

\* The longest method of the model.
ManySteps == 200

StepA == JStr(<<"a">>)
MethodInputs ==
  { JNull, JArr(<<>>), JArr(<<StepA>>),
    JArr(<<StepA, JNull, JStr(<<" ">>), JStr(<<"b", " ">>)>>),
    JArr(<<StepA, StepA, StepA>>),
    JArr([k \in 1..ManySteps |-> StepA]) }

NonEmpty(s) == s # <<>>

\* normalizeSteps(steps): (steps ?? []).map(s => (s ?? '').trim()).filter(Boolean)
normalizeSteps(col) ==
  LET arr == IF col \in {JNull, JUndef} THEN <<>> ELSE col.a
      trimmed == [k \in DOMAIN arr |-> IF arr[k] = JNull THEN <<>> ELSE Trim(arr[k].s)]
  IN SelectSeq(trimmed, NonEmpty)

Max2(a, b) == IF a >= b THEN a ELSE b
Min2(a, b) == IF a <= b THEN a ELSE b

totalSteps == Len(steps)
canPrev == activeIdx > 0
canNext == activeIdx < totalSteps - 1
goPrev(x) == Max2(0, x - 1)
goNext(x) == Min2(totalSteps - 1, x + 1)

\* Math.round(a / n * 100) for a step a of n: the nearest integer, a half
\* going up.  The program divides and multiplies in doubles, whose result is
\* within one unit in the last place of the exact a * 100 / n; the model rounds
\* the exact value, and 199 / 200 * 100 is 99.5 in doubles as it is exactly.
RoundPct(a, n) == (200 * a + n) \div (2 * n)

progress == IF totalSteps <= 0 THEN 0 ELSE RoundPct(activeIdx + 1, totalSteps)

\* part_003: steps = normalizeSteps(recipe?.method_steps), total = steps.length
total == Len(normalizeSteps(cookRecipe))

\* One route is mounted at a time: a page acts while the other is as constructed.
VariantUnmounted == cookRecipe = JUndef /\ cookIdx = 0 /\ cookErr = FALSE
CookModeUnmounted == steps = <<>> /\ activeIdx = 0 /\ err = FALSE

\* useEffect([id]) of RecipeCookMode.tsx with loadRecipe(id): the row of the
\* recipe opened is read; setSteps(normalizeSteps(rr.method_steps)),
\* setActiveIdx(0).  A failed read puts up the error screen and sets nothing else.
LoadRecipe ==
  /\ VariantUnmounted
  /\ \E col \in MethodInputs :
       /\ methodSteps' = col
       /\ \/ steps' = normalizeSteps(col) /\ activeIdx' = 0 /\ err' = FALSE
          \/ err' = TRUE /\ UNCHANGED <<steps, activeIdx>>
  /\ UNCHANGED <<notCook, cookRecipe, cookIdx, cookErr>>

\* The Prev button, disabled={!canPrev}.
GoPrev ==
  /\ ~err /\ canPrev
  /\ activeIdx' = goPrev(activeIdx)
  /\ UNCHANGED <<notCook, methodSteps, steps, err,
                 cookRecipe, cookIdx, cookErr>>

\* The Next button, disabled={!canNext}.
GoNext ==
  /\ ~err /\ canNext
  /\ activeIdx' = goNext(activeIdx)
  /\ UNCHANGED <<notCook, methodSteps, steps, err,
                 cookRecipe, cookIdx, cookErr>>

\* A button of the step list: steps.map((_, i) => ... onClick={() => setActiveIdx(i)}).
JumpTo ==
  /\ ~err
  /\ \E i \in 0..(Len(steps) - 1) : activeIdx' = i
  /\ UNCHANGED <<notCook, methodSteps, steps, err,
                 cookRecipe, cookIdx, cookErr>>

\* load() of part_003: setRecipe(data), setIdx(0); a failed read sets the
\* error and setRecipe(null), and leaves idx.
VariantLoad ==
  /\ CookModeUnmounted
  /\ \E col \in MethodInputs :
       /\ methodSteps' = col
       /\ \/ cookRecipe' = col /\ cookIdx' = 0 /\ cookErr' = FALSE
          \/ cookRecipe' = JUndef /\ cookErr' = TRUE /\ UNCHANGED cookIdx
  /\ UNCHANGED <<notCook, steps, activeIdx, err>>

\* Back of part_003: setIdx(p => Math.max(0, p - 1)), disabled={!canPrev}.
VariantBack ==
  /\ ~cookErr /\ cookIdx > 0
  /\ cookIdx' = Max2(0, cookIdx - 1)
  /\ UNCHANGED <<notCook, methodSteps, steps, activeIdx, err,
                 cookRecipe, cookErr>>

\* Next of part_003: setIdx(p => Math.min(total - 1, p + 1)), disabled={!canNext}.
VariantNext ==
  /\ ~cookErr /\ cookIdx < total - 1
  /\ cookIdx' = Min2(total - 1, cookIdx + 1)
  /\ UNCHANGED <<notCook, methodSteps, steps, activeIdx, err,
                 cookRecipe, cookErr>>

\* Cook mode opened from a closed editor.
InitCook ==
  /\ dbRecipe = [portions |-> Num(1), selling_price |-> JNull, target_food_cost_pct |-> JNull]
  /\ dbLines = {}
  /\ dbIngredients = {}
  /\ EditorInit
  /\ ListIdle
  /\ CallIdle
  /\ methodSteps \in MethodInputs
  /\ CookInit
  /\ LoadsIdle
  /\ BusyIdle
  /\ VariantsIdle

NextCook == LoadRecipe \/ GoPrev \/ GoNext \/ JumpTo \/ VariantLoad \/ VariantBack \/ VariantNext

-----------------------------------------------------------------------------
(* Overlapping loads of the editor (RecipeEditor.tsx) *)

\* The most loadAll calls of a behaviour.
MaxLoads == 3

\* Two recipes: r1, whose row is dbRecipe and whose lines are dbLines, and r2,
\* a recipe of two portions with no lines.
RecipeIds == {"r1", "r2"}
OtherRecipe == [portions |-> Num(2), selling_price |-> JNull, target_food_cost_pct |-> JNull]
RecipeOf(rid) == IF rid = "r1" THEN dbRecipe ELSE OtherRecipe
LinesOf(rid, T) == IF rid = "r1" THEN T ELSE {}

\* loadAll(recipeId) up to its last await: the rows read, of the table T of
\* recipe_lines, held by the call until it sets the state.
Issue(rid, T, byEffect) ==
  /\ issued < MaxLoads
  /\ issued' = issued + 1
  /\ inFlight' = inFlight \cup
       {[n |-> issued + 1, id |-> rid, r |-> RecipeOf(rid), L |-> LinesOf(rid, T), eff |-> byEffect]}

\* The id of the URL changes: useEffect([id]) sets loading and calls loadAll(id).
ChangeId ==
  /\ \E rid \in RecipeIds \ {routeId} :
       /\ routeId' = rid
       /\ Issue(rid, dbLines, TRUE)
  /\ loading' = TRUE
  /\ UNCHANGED <<dbVars, editorVars, opVars, recipe, notLoads>>

\* deleteLine(lineId) of a line shown, up to its loadAll(id): the delete of
\* the row with that id and recipe_id = id, the toast, the rows read again.
DeleteLineRequest ==
  /\ ~loading
  /\ \E lineId \in {lines[k].id : k \in DOMAIN lines} :
       LET T == IF routeId = "r1" THEN {d \in dbLines : d.id # lineId} ELSE dbLines
       IN /\ dbLines' = T
          /\ Issue(routeId, T, FALSE)
  /\ toastMsg' = "Deleted"
  /\ UNCHANGED <<dbRecipe, dbIngredients, editorVars, lineWrite, routeId, recipe, loading, notLoads>>

\* The rest of a loadAll: setRecipe, setLines, setIngredients, the fields and
\* setEdit, from the rows the call read; the effect's call then clears loading.
\* The calls complete in any order.
Respond ==
  /\ \E ld \in inFlight :
       /\ LoadOf(ld.r, ld.L)
       /\ recipe' = JId(ld.id)
       /\ loading' = IF ld.eff THEN FALSE ELSE loading
       /\ inFlight' = inFlight \ {ld}
  /\ UNCHANGED <<dbVars, opVars, ingSearch, routeId, issued, notLoads>>

\* The editor mounted on a recipe: the effect's first loadAll is under way.
InitLoads ==
  /\ dbRecipe = [portions |-> Num(1), selling_price |-> JNull, target_food_cost_pct |-> JNull]
  /\ dbLines \in {T \in OrderTables : Cardinality(T) <= MaxEditorLines}
  /\ dbIngredients = Catalogue
  /\ EditorInit
  /\ ListIdle
  /\ CallIdle
  /\ methodSteps = JNull
  /\ CookInit
  /\ BusyIdle
  /\ VariantsIdle
  /\ routeId \in RecipeIds /\ recipe = JNull /\ loading = TRUE
  /\ issued = 1
  /\ inFlight = {[n |-> 1, id |-> routeId, r |-> RecipeOf(routeId),
                  L |-> LinesOf(routeId, dbLines), eff |-> TRUE]}

NextLoads == ChangeId \/ DeleteLineRequest \/ Respond

-----------------------------------------------------------------------------
(* The busy flags of the editor (RecipeEditor.tsx) *)

\* A call of an operation waiting for a response: its operation, the line it
\* is about (0 when none), and the await it has reached.
Call(op, line, stage) == [op |-> op, line |-> line, stage |-> stage]

\* The most calls waiting for a response at a time.
MaxPending == 2

\* A further call may start.
Room == Cardinality(pending) < MaxPending

BusyOps == {"saveMeta", "uploadPhoto", "addLineInline", "addGroup", "saveRow", "persistOrder"}
Calls ==
  {Call(op, 0, st) : op \in BusyOps \ {"saveRow"}, st \in {"write", "load"}}
    \cup {Call("uploadPhoto", 0, "upload")}
    \cup {Call("saveRow", k, st) : k \in 1..MaxEditorLines, st \in {"write", "load"}}

\* rowSaving[lineId] === true
RowBusy(lineId) == lineId \in DOMAIN rowSaving /\ rowSaving[lineId]

\* setRowSaving(p => ({...p, [lineId]: b}))
RowSavingSet(p, lineId, b) ==
  [k \in DOMAIN p \cup {lineId} |-> IF k = lineId THEN b ELSE p[k]]

\* An early return, or a throw before the first await: the toast, and no
\* flag left set.
Refused(msg) ==
  /\ toastMsg' = msg
  /\ UNCHANGED <<lineWrite, editorVars, busyVars, notBusy>>

\* saveMeta() up to its update: setSavingMeta(true).  The button is disabled
\* while savingMeta.
SaveMetaStart ==
  /\ ~savingMeta /\ Room
  /\ savingMeta' = TRUE
  /\ pending' = pending \cup {Call("saveMeta", 0, "write")}
  /\ UNCHANGED <<opVars, editorVars, uploading, savingAdd, savingGroup, rowSaving, reorderSaving, notBusy>>

\* uploadPhoto(file) up to its upload: setUploading(true).  The file input
\* is disabled while uploading.
UploadPhotoStart ==
  /\ ~uploading /\ Room
  /\ uploading' = TRUE
  /\ pending' = pending \cup {Call("uploadPhoto", 0, "upload")}
  /\ UNCHANGED <<opVars, editorVars, savingMeta, savingAdd, savingGroup, rowSaving, reorderSaving, notBusy>>

\* addLineInline() up to its insert: the early returns, then
\* setSavingAdd(true).  The button is disabled while savingAdd.
AddLineStart ==
  /\ ~savingAdd /\ Room
  /\ \E addIngredientId \in AddIngredientInputs, addQty \in AddQtyInputs :
       LET qty == MathMax(Zero, toNum(JStr(addQty), Zero))
       IN IF addIngredientId = "" THEN Refused("Pick an ingredient first")
          ELSE IF FLe(qty, Zero) THEN Refused("Qty must be > 0")
          ELSE /\ savingAdd' = TRUE
               /\ pending' = pending \cup {Call("addLineInline", 0, "write")}
               /\ UNCHANGED <<opVars, editorVars, savingMeta, uploading, savingGroup, rowSaving,
                              reorderSaving, notBusy>>

\* addGroup() up to its insert: the early return, then setSavingGroup(true).
\* The button is disabled while savingGroup.
AddGroupStart ==
  /\ ~savingGroup /\ Room
  /\ \E groupTitle \in GroupTitleInputs :
       IF Trim(groupTitle) = <<>> THEN Refused("Write group title first")
       ELSE /\ savingGroup' = TRUE
            /\ pending' = pending \cup {Call("addGroup", 0, "write")}
            /\ UNCHANGED <<opVars, editorVars, savingMeta, uploading, savingAdd, rowSaving,
                           reorderSaving, notBusy>>

\* saveRow(lineId) of a line shown, up to its update: setRowSaving true; a
\* throw before the update goes through catch and finally at once.  The
\* row's Save button is disabled while rowSaving[lineId].
SaveRowStart ==
  \E lineId \in {lines[k].id : k \in DOMAIN lines} :
    LET row == edit[lineId]
        current == LineById(lineId)
        qty == MathMax(Zero, toNum(JStr(row.qty), Zero))
    IN /\ ~RowBusy(lineId) /\ Room
       /\ lineId \in DOMAIN edit
       /\ IF current.line_type = "group" /\ Trim(row.group_title) = <<>>
          THEN Refused("Group title required")
          ELSE IF current.line_type # "group" /\ row.ingredient_id = ""
          THEN Refused("Pick an ingredient")
          ELSE IF current.line_type # "group" /\ FLe(qty, Zero)
          THEN Refused("Qty must be > 0")
          ELSE /\ rowSaving' = RowSavingSet(rowSaving, lineId, TRUE)
               /\ pending' = pending \cup {Call("saveRow", lineId, "write")}
               /\ UNCHANGED <<opVars, editorVars, savingMeta, uploading, savingAdd, savingGroup,
                              reorderSaving, notBusy>>

\* moveLine(lineId, dir) of a line shown, up to the updates of persistOrder:
\* off the end of the list nothing starts; otherwise setLines(next) and
\* setReorderSaving(true).  The move buttons are disabled while reorderSaving.
MoveLineStart ==
  /\ ~reorderSaving /\ Room
  /\ \E lineId \in {lines[k].id : k \in DOMAIN lines}, dir \in {-1, 1} :
       LET i == IndexOf(lineId)
           j == i + dir
       IN IF j < 1 \/ j > Len(lines) THEN UNCHANGED vars
          ELSE /\ lines' = Swapped(lines, i, j)
               /\ reorderSaving' = TRUE
               /\ pending' = pending \cup {Call("persistOrder", 0, "write")}
               /\ UNCHANGED <<opVars, ingredients, portions, sellingPrice, targetFC, edit, ingSearch,
                              savingMeta, uploading, savingAdd, savingGroup, rowSaving, notBusy>>

\* What a finally sets the flag b of its operation to: false.
StillSet(b) == b
Cleared(b) == FALSE

\* The finally of the operation of call q.
Finally(q) ==
  /\ savingMeta' = IF q.op = "saveMeta" THEN Cleared(savingMeta) ELSE savingMeta
  /\ uploading' = IF q.op = "uploadPhoto" THEN Cleared(uploading) ELSE uploading
  /\ savingAdd' = IF q.op = "addLineInline" THEN Cleared(savingAdd) ELSE savingAdd
  /\ savingGroup' = IF q.op = "addGroup" THEN Cleared(savingGroup) ELSE savingGroup
  /\ rowSaving' = IF q.op = "saveRow" THEN RowSavingSet(rowSaving, q.line, Cleared(RowBusy(q.line)))
                  ELSE rowSaving
  /\ reorderSaving' = IF q.op = "persistOrder" THEN Cleared(reorderSaving) ELSE reorderSaving
  /\ pending' = pending \ {q}

FailToast(op) ==
  CASE op = "saveMeta" -> "Save failed"
    [] op = "uploadPhoto" -> "Upload failed"
    [] op = "addLineInline" -> "Add failed"
    [] op = "addGroup" -> "Add group failed"
    [] op = "saveRow" -> "Save line failed"
    [] op = "persistOrder" -> "Reorder failed"

DoneToast(op) ==
  CASE op = "saveMeta" -> "Saved"
    [] op = "uploadPhoto" -> "Photo updated"
    [] op = "addLineInline" -> "Ingredient added"
    [] op = "addGroup" -> "Group added"
    [] op = "saveRow" -> "Line saved"
    [] op = "persistOrder" -> "Order saved"

\* The response to the request call q waits for.  The upload is followed by
\* the update of photo_url, a write by the success toast and loadAll(id), and
\* loadAll by the finally; an error at any of them goes to the catch, which
\* shows it, and to the finally.
Settle(q) ==
  /\ q \in pending
  /\ \/ /\ q.stage = "upload"
        /\ pending' = (pending \ {q}) \cup {Call(q.op, q.line, "write")}
        /\ UNCHANGED <<opVars, flagVars>>
     \/ /\ q.stage = "write"
        /\ pending' = (pending \ {q}) \cup {Call(q.op, q.line, "load")}
        /\ toastMsg' = DoneToast(q.op)
        /\ UNCHANGED <<lineWrite, flagVars>>
     \/ /\ q.stage = "load"
        /\ Finally(q)
        /\ UNCHANGED opVars
     \/ /\ Finally(q)
        /\ toastMsg' = FailToast(q.op)
        /\ UNCHANGED lineWrite
  /\ UNCHANGED <<editorVars, notBusy>>

Settles == \E q \in Calls : Settle(q)

\* Two lines: one that names no ingredient, which saveRow refuses, and a group.
BusyTables == { {Row(1, 5), Row(2, 4)} }

\* The editor as constructed, over a recipe of two lines.
InitBusy ==
  /\ dbRecipe = [portions |-> Num(1), selling_price |-> JNull, target_food_cost_pct |-> JNull]
  /\ dbLines \in BusyTables
  /\ dbIngredients = Catalogue
  /\ EditorInit
  /\ ListIdle
  /\ PagesIdle
  /\ CallIdle

NextBusy ==
  \/ LoadAll
  \/ SaveMetaStart \/ UploadPhotoStart \/ AddLineStart \/ AddGroupStart \/ SaveRowStart
  \/ MoveLineStart
  \/ Settles

-----------------------------------------------------------------------------
(* The step builder (part_004) *)

\* The most rows of recipe_steps, the most addStep calls unanswered at a
\* time, and the most addStep calls of a behaviour.
MaxStepRows == 3
MaxAdds == 2
MaxStepCalls == 3

StepRow(sid, order) == [id |-> sid, order_index |-> order]

StepTables ==
  { {}, {StepRow(1, 1)}, {StepRow(1, 1), StepRow(2, 2)}, {StepRow(1, 2), StepRow(2, 5)},
    {StepRow(1, 1), StepRow(2, 2), StepRow(3, 3)} }

\* .order('order_index', { ascending: true }): the rows of T, each once, in
\* an order the sort allows; rows of one order_index come in any order.
OrderedBy(T) ==
  { sq \in [1..Cardinality(T) -> T] :
      /\ \A a, b \in 1..Cardinality(T) : a # b => sq[a] # sq[b]
      /\ \A a, b \in 1..Cardinality(T) : a < b => sq[a].order_index <= sq[b].order_index }

\* Array.prototype.sort((a, b) => a.order_index - b.order_index), which is
\* stable: x goes behind the rows that do not come after it.
RECURSIVE InsertStable(_, _)
InsertStable(sorted, x) ==
  IF sorted = <<>> THEN <<x>>
  ELSE IF sorted[Len(sorted)].order_index <= x.order_index THEN Append(sorted, x)
  ELSE Append(InsertStable(SubSeq(sorted, 1, Len(sorted) - 1), x), sorted[Len(sorted)])

RECURSIVE SortSteps(_)
SortSteps(sq) ==
  IF sq = <<>> THEN <<>>
  ELSE InsertStable(SortSteps(SubSeq(sq, 1, Len(sq) - 1)), sq[Len(sq)])

RECURSIVE MaxOrder(_)
MaxOrder(sq) ==
  IF Len(sq) = 1 THEN sq[1].order_index
  ELSE Max2(sq[1].order_index, MaxOrder(Tail(sq)))

\* nextOrder of addStep
nextOrder(sq) == IF Len(sq) > 0 THEN MaxOrder(sq) + 1 ELSE 1

\* steps.map((s, i) => ({ ...s, order_index: i + 1 }))
Reindexed(sq) == [k \in DOMAIN sq |-> [sq[k] EXCEPT !.order_index = k]]

\* The table after the first k updates of persistReorder(normalized).
Applied(T, normalized, k) ==
  { IF \E i \in 1..k : normalized[i].id = r.id
    THEN [r EXCEPT !.order_index = (CHOOSE i \in 1..k : normalized[i].id = r.id)]
    ELSE r : r \in T }

\* loadSteps()
LoadSteps ==
  /\ stepRows' \in OrderedBy(dbSteps)
  /\ stepsError' = ""
  /\ UNCHANGED <<dbSteps, adding, stepCalls, notSteps>>

\* addStep() up to its insert: nextOrder is computed from the steps shown.
\* The button is never disabled.
AddStepStart ==
  /\ Cardinality(adding) < MaxAdds /\ stepCalls < MaxStepCalls
  /\ stepCalls' = stepCalls + 1
  /\ adding' = adding \cup {[n |-> stepCalls + 1, order |-> nextOrder(stepRows)]}
  /\ stepsError' = ""
  /\ UNCHANGED <<dbSteps, stepRows, notSteps>>

\* The insert of call c succeeds: the row gets an id of its own and goes into
\* the steps shown, sorted by order_index.
AddStepOk(c) ==
  /\ c \in adding
  /\ Cardinality(dbSteps) < MaxStepRows
  /\ \E sid \in (1..MaxStepRows) \ {r.id : r \in dbSteps} :
       /\ dbSteps' = dbSteps \cup {StepRow(sid, c.order)}
       /\ stepRows' = SortSteps(Append(stepRows, StepRow(sid, c.order)))
  /\ adding' = adding \ {c}
  /\ UNCHANGED <<stepCalls, stepsError, notSteps>>

\* The insert of call c fails.
AddStepFails(c) ==
  /\ c \in adding
  /\ adding' = adding \ {c}
  /\ stepsError' = "Failed to add step."
  /\ UNCHANGED <<dbSteps, stepRows, stepCalls, notSteps>>

AddStepDone == \E c \in adding : AddStepOk(c) \/ AddStepFails(c)

\* persistReorder(normalized) over the table T, every update succeeding.
PersistReorderOk(T, normalized) ==
  /\ stepRows' = normalized
  /\ dbSteps' = Applied(T, normalized, Len(normalized))
  /\ stepsError' = ""

\* persistReorder(normalized) over the table T, an update failing after k
\* others: the error, and loadSteps(), which clears it and reads the rows.
PersistReorderFails(T, normalized) ==
  /\ \E k \in 0..(Len(normalized) - 1) :
       /\ dbSteps' = Applied(T, normalized, k)
       /\ stepRows' \in OrderedBy(Applied(T, normalized, k))
  /\ stepsError' = ""

\* deleteStep(stepId), the delete and every update succeeding.
DeleteStepOk(stepId) ==
  /\ \E k \in DOMAIN stepRows : stepRows[k].id = stepId
  /\ LET remaining == SelectSeq(stepRows, LAMBDA x : x.id # stepId)
     IN PersistReorderOk({r \in dbSteps : r.id # stepId}, Reindexed(remaining))
  /\ UNCHANGED <<adding, stepCalls, notSteps>>

\* deleteStep(stepId), the delete failing, or an update after it.
DeleteStepFails(stepId) ==
  /\ \E k \in DOMAIN stepRows : stepRows[k].id = stepId
  /\ LET remaining == SelectSeq(stepRows, LAMBDA x : x.id # stepId)
     IN \/ stepsError' = "Failed to delete step." /\ UNCHANGED <<dbSteps, stepRows>>
        \/ PersistReorderFails({r \in dbSteps : r.id # stepId}, Reindexed(remaining))
  /\ UNCHANGED <<adding, stepCalls, notSteps>>

DeleteStep == \E stepId \in 1..MaxStepRows : DeleteStepOk(stepId) \/ DeleteStepFails(stepId)

\* The steps with those at idx and swapWith exchanged, reindexed.
MovedSteps(idx, swapWith) ==
  Reindexed([k \in DOMAIN stepRows |->
               IF k = idx THEN stepRows[swapWith]
               ELSE IF k = swapWith THEN stepRows[idx] ELSE stepRows[k]])

\* moveStep(stepId, dir) of a step with a neighbour on that side, every
\* update succeeding (dir: -1 for up, 1 for down).
MoveStepOk(stepId, dir) ==
  /\ \E idx \in DOMAIN stepRows :
       /\ stepRows[idx].id = stepId
       /\ idx + dir \in DOMAIN stepRows
       /\ PersistReorderOk(dbSteps, MovedSteps(idx, idx + dir))
  /\ UNCHANGED <<adding, stepCalls, notSteps>>

\* The same, an update failing.
MoveStepFails(stepId, dir) ==
  /\ \E idx \in DOMAIN stepRows :
       /\ stepRows[idx].id = stepId
       /\ idx + dir \in DOMAIN stepRows
       /\ PersistReorderFails(dbSteps, MovedSteps(idx, idx + dir))
  /\ UNCHANGED <<adding, stepCalls, notSteps>>

MoveStep ==
  \E stepId \in 1..MaxStepRows, dir \in {-1, 1} : MoveStepOk(stepId, dir) \/ MoveStepFails(stepId, dir)

\* The steps tab opened on a recipe, its steps loaded.
InitSteps ==
  /\ dbRecipe = [portions |-> Num(1), selling_price |-> JNull, target_food_cost_pct |-> JNull]
  /\ dbLines = {}
  /\ dbIngredients = {}
  /\ EditorInit
  /\ ListIdle
  /\ CallIdle
  /\ methodSteps = JNull
  /\ CookInit
  /\ LoadsIdle
  /\ BusyIdle
  /\ SavesIdle
  /\ dbSteps \in StepTables
  /\ stepRows \in OrderedBy(dbSteps)
  /\ adding = {} /\ stepCalls = 0 /\ stepsError = ""

NextSteps == LoadSteps \/ AddStepStart \/ AddStepDone \/ DeleteStep \/ MoveStep

-----------------------------------------------------------------------------
(* The auto-saving quick fields (part_004) *)

\* The most saveRecipe calls of a behaviour.
MaxSaves == 3

\* The columns of a recipes row that the quick fields edit.
RecipeRow(nm, cat, por) ==
  [name |-> nm, category |-> cat, portions |-> por]

StoredRecipes == { RecipeRow(JStr(<<"O", "x">>), JNull, Num(1)), RecipeRow(JNull, JStr(<<"S">>), JNull) }

\* numOrNull(v): Number(v) when it is finite, else null.
numOrNull(v) ==
  LET n == StringToNumber(v)
  IN IF n.t = "fin" THEN n ELSE JNull

\* What the onChange handlers pass to saveRecipe: { name }, { category } or
\* { portions: numOrNull(value) }.
Patches ==
  { [field |-> "name", value |-> JStr(v)] : v \in {<<>>, <<"A">>} }
    \cup { [field |-> "category", value |-> JStr(<<"M">>)] }
    \cup { [field |-> "portions", value |-> numOrNull(v)] : v \in {<<"2">>, <<"x">>} }

\* { ...recipe, ...patch }
Merged(row, patch) ==
  CASE patch.field = "name" -> [row EXCEPT !.name = patch.value]
    [] patch.field = "category" -> [row EXCEPT !.category = patch.value]
    [] patch.field = "portions" -> [row EXCEPT !.portions = patch.value]

\* saveRecipe(patch) up to its update: setSaving(true), setErrorMsg(''),
\* setRecipe(next), and the update of the row to next is sent.
SaveRecipe ==
  /\ shown # JNull
  /\ saveCalls < MaxSaves
  /\ \E patch \in Patches :
       /\ shown' = Merged(shown, patch)
       /\ saves' = saves \cup {[n |-> saveCalls + 1, row |-> Merged(shown, patch)]}
  /\ saveCalls' = saveCalls + 1
  /\ saving' = TRUE
  /\ errorMsg' = ""
  /\ UNCHANGED <<dbSaved, notSaves>>

\* The update u reaches the table and succeeds: the columns are stored, and
\* setSaving(false).
UpdateStored(u) ==
  /\ u \in saves
  /\ dbSaved' = u.row
  /\ saves' = saves \ {u}
  /\ saving' = FALSE
  /\ UNCHANGED <<shown, saveCalls, errorMsg, notSaves>>

\* The update u fails: the error is shown, and setSaving(false).
UpdateFails(u) ==
  /\ u \in saves
  /\ saves' = saves \ {u}
  /\ saving' = FALSE
  /\ errorMsg' = "Save failed."
  /\ UNCHANGED <<dbSaved, shown, saveCalls, notSaves>>

\* The updates sent are answered in any order.
UpdateAnswered == \E u \in saves : UpdateStored(u) \/ UpdateFails(u)

\* The auto-saving editor with its recipe loaded.
InitSaves ==
  /\ dbRecipe = [portions |-> Num(1), selling_price |-> JNull, target_food_cost_pct |-> JNull]
  /\ dbLines = {}
  /\ dbIngredients = {}
  /\ EditorInit
  /\ ListIdle
  /\ CallIdle
  /\ methodSteps = JNull
  /\ CookInit
  /\ LoadsIdle
  /\ BusyIdle
  /\ StepsIdle
  /\ dbSaved \in StoredRecipes
  /\ shown = dbSaved
  /\ saves = {} /\ saveCalls = 0 /\ saving = FALSE /\ errorMsg = ""

NextSaves == SaveRecipe \/ UpdateAnswered

-----------------------------------------------------------------------------
NextTotal == LoadAll \/ DeleteIngredient
NextPricing == LoadAll \/ SetPortions \/ SetSellingPrice
NextMeta == LoadAll \/ SetPortions \/ SetTargetFC \/ SaveMeta
NextLines == LoadAll \/ AddLineInline \/ AddGroup \/ SetEdit \/ SaveRow \/ DuplicateLine
NextRecipes == ListLoad \/ CreateNew \/ Archive \/ ItemsLoad \/ OnDelete
NextPicker == LoadAll \/ SetIngSearch
NextOrder == LoadAll \/ MoveLine \/ DeleteLine
NextAdd == LoadAll \/ AddLineInline \/ AddGroup
NextCopy == LoadAll \/ DuplicateAmongLines \/ MoveLine
NextRows == LoadAll \/ SetEdit
NextConvert == Convert \/ ConvertBack \/ Normalize \/ NormalizeAgain

\* The total cost of the loaded lines, as ingredients are deleted and the editor reloads.
SpecTotal == InitTotal /\ [][NextTotal]_vars
\* The pricing figures, as the form fields are edited and the editor reloads.
SpecPricing == InitPricing /\ [][NextPricing]_vars
\* The recipe row, as the form is edited, saved and reloaded.
SpecMeta == InitMeta /\ [][NextMeta]_vars
\* The recipe_lines table, as lines are added, edited, saved and duplicated.
SpecLines == InitLines /\ [][NextLines]_vars
\* The recipes table and the two recipe lists, as recipes are created, archived and deleted.
SpecRecipes == InitRecipes /\ [][NextRecipes]_vars
\* The ingredient pickers and the costing, as the search field is edited.
SpecPicker == InitPicker /\ [][NextPicker]_vars
\* The order of the lines, as lines are moved and deleted.
SpecOrder == InitOrder /\ [][NextOrder]_vars
\* The place of the lines and groups added to a recipe.
SpecAdd == InitAdd /\ [][NextAdd]_vars
\* The place of the copies of duplicated lines.
SpecCopy == InitCopy /\ [][NextCopy]_vars
\* The costs shown on the rows, as the edit fields are changed.
SpecRows == InitRows /\ [][NextRows]_vars
\* The unit helpers applied to every quantity and pair of units of the model.
SpecConvert == InitConvert /\ [][NextConvert]_vars

SpecCook == InitCook /\ [][NextCook]_vars

SpecLoads == InitLoads /\ [][NextLoads]_vars

SpecSteps == InitSteps /\ [][NextSteps]_vars

SpecSaves == InitSaves /\ [][NextSaves]_vars

SpecBusy == InitBusy /\ [][NextBusy]_vars

\* Every request is answered: with its rows, or with an error.
SpecBusyAnswered == SpecBusy /\ \A q \in Calls : WF_vars(Settle(q))

-----------------------------------------------------------------------------
(* Properties *)

RemoveAt(sq, i) == SubSeq(sq, 1, i - 1) \o SubSeq(sq, i + 1, Len(sq))
IsIngredientLine(l) == l.line_type = "ingredient"
LoadedIds == {i.id : i \in ingredients}
Resolves(l) == ~Falsy(l.ingredient_id) /\ l.ingredient_id.s \in LoadedIds

\* Number(portions) and Number(sellingPrice): the raw inputs as numbers.
RawPortions == StringToNumber(portions)
RawPrice == StringToNumber(sellingPrice)

\* C1: cost per portion never divides by the raw portions input.  When the input
\* is empty, not a number, not finite, zero or negative the divisor is exactly 1
\* and costPerPortion = totalCost; when it is a value >= 1 the divisor is that
\* value; and the divisor is never 0 or negative.
C1_DivisorAtLeastOne ==
  /\ (Trim(portions) = <<>> \/ ~IsFin(RawPortions) \/ FLe(RawPortions, Zero))
       => (portionsN = Num(1) /\ cpp = totalCost)
  /\ (IsFin(RawPortions) /\ FLe(Num(1), RawPortions))
       => (portionsN = RawPortions /\ cpp = FDiv(totalCost, RawPortions))
  /\ IsFin(portionsN) /\ FLe(Num(1), portionsN)

\* C1 witness: the Portions field holds 0 and a total of 8 is the cost per portion.
C1_Witness ==
  portions = <<"0">> /\ totalCost = Num(8) /\ cpp = Num(8) /\ portionsN = Num(1)

\* The total cost summed line by line over the first k loaded lines, a group
\* line and a line without an ingredient id counting nothing.
RECURSIVE C2_SumOfFirst(_)
C2_SumOfFirst(k) ==
  IF k = 0 THEN Zero
  ELSE IF IsIngredientLine(lines[k]) /\ ~Falsy(lines[k].ingredient_id)
    THEN FAdd(C2_SumOfFirst(k - 1), LineAdds(lines[k], ingredients))
  ELSE C2_SumOfFirst(k - 1)

\* The costs that the loop adds, in the order of ls.
RECURSIVE C2_Costs(_)
C2_Costs(ls) ==
  IF ls = <<>> THEN <<>>
  ELSE IF Skipped(Head(ls)) THEN C2_Costs(Tail(ls))
  ELSE <<LineAdds(Head(ls), ingredients)>> \o C2_Costs(Tail(ls))

\* The sum of the costs cs taken in the order f from the k-th on, and whether
\* every addition of it is computed without rounding.
RECURSIVE C2_SumInOrder(_, _, _, _)
C2_SumInOrder(cs, f, k, acc) ==
  IF k > Len(cs) THEN acc
  ELSE C2_SumInOrder(cs, f, k + 1,
         [sum |-> FAdd(acc.sum, cs[f[k]]),
          exact |-> acc.exact /\ ExactAdd(acc.sum, cs[f[k]])])

C2_Start == [sum |-> Zero, exact |-> TRUE]
C2_Reordered(f) == [i \in 1..Len(lines) |-> lines[f[i]]]

\* C2 as stated: totalCost is the sum over exactly the ingredient lines, every
\* group line contributes 0, and the total does not depend on the order of the
\* lines.
C2_Original ==
  /\ totalCost = TotalCostOf(SelectSeq(lines, IsIngredientLine), ingredients)
  /\ \A f \in Permutations(1..Len(lines)) :
       TotalCostOf(C2_Reordered(f), ingredients) = totalCost

\* C2 as amended: totalCost is the sum, taken in list order with every addition
\* rounded, of the cost of exactly the lines with line_type "ingredient"; every
\* group line contributes exactly 0 whatever qty, unit or ingredient_id it
\* carries (the total is the same without it); and the total is the same for
\* every order of the costs in which, as in the order loaded, no addition rounds.
C2_GroupsCostNothing ==
  /\ totalCost = TotalCostOf(SelectSeq(lines, IsIngredientLine), ingredients)
  /\ totalCost = C2_SumOfFirst(Len(lines))
  /\ \A i \in 1..Len(lines) :
       lines[i].line_type = "group"
         => TotalCostOf(RemoveAt(lines, i), ingredients) = totalCost
  /\ LET cs == C2_Costs(lines)
         inOrder == C2_SumInOrder(cs, [i \in 1..Len(cs) |-> i], 1, C2_Start)
     IN /\ inOrder.sum = totalCost
        /\ inOrder.exact
             => \A f \in Permutations(1..Len(cs)) :
                  LET other == C2_SumInOrder(cs, f, 1, C2_Start)
                  IN other.exact => other.sum = totalCost

\* C2 witness: a group line that carries an ingredient, a qty and a unit stands
\* among the loaded lines beside a line costing 2, and the total is 2.
C2_Witness ==
  /\ Len(lines) >= 2
  /\ \E i \in 1..Len(lines) :
       /\ lines[i].line_type = "group"
       /\ Resolves(lines[i])
       /\ lines[i].qty = Num(500)
  /\ totalCost = Num(2)

\* The cost of line i alone, and the total without line i.
CostAlone(i) == TotalCostOf(<<lines[i]>>, ingredients)
TotalWithout(i) == TotalCostOf(RemoveAt(lines, i), ingredients)

\* C3: an ingredient line whose ingredient_id is null or is no key of the loaded
\* ingredients (its ingredient row was deleted) contributes exactly 0 to
\* totalCost, for any qty and unit.
C3_MissingIngredientCostsNothing ==
  \A i \in 1..Len(lines) :
    (IsIngredientLine(lines[i]) /\ ~Resolves(lines[i]))
      => (CostAlone(i) = Zero /\ TotalWithout(i) = totalCost)

\* The pack unit and the net unit cost the claim reads from an ingredient.
C4_PackUnit(ing) == IF ing.pack_unit.t = "null" THEN JStr(<<"g">>) ELSE ing.pack_unit
C4_NetCost(ing) == IF IsFin(ing.net_unit_cost) THEN ing.net_unit_cost ELSE Zero

\* C4: the cost of an ingredient line that resolves to an ingredient is
\* convert(qty, line unit, pack unit) times the net unit cost, an absent pack
\* unit taken as "g" and a missing net unit cost as 0.
C4_LineCost ==
  \A i \in 1..Len(lines) :
    (IsIngredientLine(lines[i]) /\ Resolves(lines[i]))
      => LET ing == CHOOSE x \in ingredients : x.id = lines[i].ingredient_id.s
         IN CostAlone(i) =
              FMul(convertQtyToPackUnit(lines[i].qty, lines[i].unit, C4_PackUnit(ing)),
                   C4_NetCost(ing))

\* C4 witness: 500 g of i1, priced 4 per kg, costs 2, and 300 of i2, which has
\* no pack unit and costs 1 per unit, costs 300.
C4_Witness ==
  /\ \E i \in 1..Len(lines) :
       /\ lines[i].ingredient_id = JId("i1") /\ lines[i].qty = Num(500)
       /\ IsIngredientLine(lines[i]) /\ Resolves(lines[i])
       /\ CostAlone(i) = Num(2)
  /\ \E i \in 1..Len(lines) :
       /\ lines[i].ingredient_id = JId("i2") /\ lines[i].qty = Num(300)
       /\ Resolves(lines[i])
       /\ CostAlone(i) = Num(300)

\* The two units of the call as the conversion compares them: trimmed and
\* lower-cased, a null, empty or blank unit read as g.
Blank(u) == Trim(OrEmpty(u)) = <<>>
UnitRead(u) == IF Blank(u) THEN <<"g">> ELSE ToLowerCase(Trim(OrEmpty(u)))
CallPair == <<UnitRead(cFrom), UnitRead(cTo)>>
ScaledPairs ==
  { <<<<"g">>, <<"k", "g">>>>, <<<<"k", "g">>, <<"g">>>>,
    <<<<"m", "l">>, <<"l">>>>, <<<<"l">>, <<"m", "l">>>> }
Converted == pc \in {"converted", "back"}

\* C5: convert returns qty unchanged for every pair of units other than g -> kg,
\* kg -> g, ml -> l and l -> ml: the same unit twice, units of different
\* families, an unrecognized unit.
C5_OtherPairsUnchanged ==
  (Converted /\ CallPair \notin ScaledPairs) => cOut = cQty

\* C5 witness: 5 pcs of an ingredient packed in kg stay 5.
C5_Witness ==
  /\ Converted
  /\ cFrom = JStr(<<"p", "c", "s">>) /\ cTo = JStr(<<"k", "g">>)
  /\ cQty = Num(5) /\ cOut = Num(5)

\* C6: g -> kg and ml -> l divide by 1000, kg -> g and l -> ml multiply by 1000,
\* whatever the letter case and the surrounding white space of the two units.
C6_FactorThousand ==
  Converted =>
    /\ CallPair \in {<<<<"g">>, <<"k", "g">>>>, <<<<"m", "l">>, <<"l">>>>}
         => cOut = FDiv(cQty, Num(1000))
    /\ CallPair \in {<<<<"k", "g">>, <<"g">>>>, <<<<"l">>, <<"m", "l">>>>}
         => cOut = FMul(cQty, Num(1000))

\* C6 witness: 1 " KG " of an ingredient packed in "G" is 1000.
C6_Witness ==
  /\ Converted
  /\ cFrom = JStr(<<" ", "K", "G", " ">>) /\ cTo = JStr(<<"G">>)
  /\ cQty = Num(1) /\ cOut = Num(1000)

RoundTripCall ==
  pc = "back" /\ CallPair \in {<<<<"k", "g">>, <<"g">>>>, <<<<"l">>, <<"m", "l">>>>}

\* C7 as stated: kg -> g -> kg (and l -> ml -> l) returns the original quantity
\* for every finite quantity x >= 0.
C7_Original ==
  (RoundTripCall /\ IsFin(cQty) /\ FLe(Zero, cQty)) => cBack = cQty

\* C7 as amended: kg -> g -> kg (and l -> ml -> l) returns the original quantity
\* for every finite x >= 0 whose product x * 1000 is computed without rounding
\* and without overflow.
C7_RoundTripWhenExact ==
  (RoundTripCall /\ IsFin(cQty) /\ FLe(Zero, cQty) /\ ExactMul(cQty, Num(1000)))
    => cBack = cQty

\* C7 witness: 0.5 kg is 500 g, and 500 g is 0.5 kg again.
C7_Witness ==
  /\ RoundTripCall
  /\ cFrom = JStr(<<"k", "g">>) /\ cTo = JStr(<<"g">>)
  /\ cQty = FDiv(Num(1), Num(2)) /\ cOut = Num(500) /\ cBack = cQty

Recognized == {<<"g">>, <<"k", "g">>, <<"m", "l">>, <<"l">>, <<"p", "c", "s">>}
\* C8 as stated: normalize trims and lower-cases, yields "g" for an input that is
\* empty, white space only, null or not a recognized unit, and is idempotent.
C8_Original ==
  /\ cNorm # JUndef
       => /\ (Blank(cFrom) \/ ToLowerCase(Trim(OrEmpty(cFrom))) \notin Recognized)
               => cNorm.s = <<"g">>
          /\ ToLowerCase(Trim(OrEmpty(cFrom))) \in Recognized
               => cNorm.s = ToLowerCase(Trim(OrEmpty(cFrom)))
  /\ cNorm2 # JUndef => cNorm2 = cNorm

\* C8 as amended: normalize trims and lower-cases; it yields "g" for an input that
\* is empty, white space only or null, and for every other input, recognized or
\* not, the trimmed lower-cased input itself; applying it twice gives the same
\* result as applying it once.
C8_NormalizeTrimsAndLowers ==
  /\ cNorm # JUndef
       => /\ Blank(cFrom) => cNorm.s = <<"g">>
          /\ ~Blank(cFrom) => cNorm.s = ToLowerCase(Trim(OrEmpty(cFrom)))
          /\ cNorm.s # <<>>
          /\ cNorm.s[1] \notin WhiteSpace /\ cNorm.s[Len(cNorm.s)] \notin WhiteSpace
          /\ \A i \in 1..Len(cNorm.s) : \A j \in 1..26 : cNorm.s[i] # Upper[j]
  /\ cNorm2 # JUndef => cNorm2 = cNorm

\* C8 witness: "Cup" has been normalized to "cup", and normalizing again gave "cup".
C8_Witness ==
  /\ cFrom = JStr(<<"C", "u", "p">>)
  /\ cNorm = JStr(<<"c", "u", "p">>)
  /\ cNorm2 = cNorm

\* C9: foodCostPercent and marginPercent are null exactly when the selling price
\* is <= 0, an empty, non-numeric or negative input included, and both are
\* numbers whenever the selling price is > 0.
C9_NullExactlyWithoutPrice ==
  /\ (fcPct = JNull) <=> ~FGt(sell, Zero)
  /\ (marginPct = JNull) <=> ~FGt(sell, Zero)
  /\ (Trim(sellingPrice) = <<>> \/ ~IsFin(RawPrice) \/ FLe(RawPrice, Zero))
       => (fcPct = JNull /\ marginPct = JNull)
  /\ (IsFin(RawPrice) /\ FGt(RawPrice, Zero))
       => (sell = RawPrice /\ IsNum(fcPct) /\ IsNum(marginPct))

\* C9 witness: with a cost per portion of 8 and a selling price input of -5 both
\* percentages are null.
C9_Witness ==
  /\ sellingPrice = <<"-", "5">> /\ cpp = Num(8)
  /\ fcPct = JNull /\ marginPct = JNull

C10_Formulas ==
  FGt(sell, Zero)
    => /\ fcPct = FMul(FDiv(cpp, RawPrice), Num(100))
       /\ marginPct = FMul(FDiv(FSub(RawPrice, cpp), RawPrice), Num(100))

\* C10 as stated: with a selling price > 0, foodCostPercent is
\* (costPerPortion / sellingPrice) * 100, marginPercent is
\* ((sellingPrice - costPerPortion) / sellingPrice) * 100, and the two always sum
\* to 100.
C10_Original ==
  /\ C10_Formulas
  /\ FGt(sell, Zero) => FAdd(fcPct, marginPct) = Num(100)

\* C10 as amended: with a selling price > 0, foodCostPercent is
\* (costPerPortion / sellingPrice) * 100 and marginPercent is
\* ((sellingPrice - costPerPortion) / sellingPrice) * 100, each operation rounded;
\* the two sum to 100 whenever none of these operations rounds.
C10_PercentagesOfPrice ==
  /\ C10_Formulas
  /\ ( /\ FGt(sell, Zero)
       /\ ExactDiv(cpp, sell) /\ ExactMul(FDiv(cpp, sell), Num(100))
       /\ ExactSub(sell, cpp) /\ ExactDiv(margin, sell)
       /\ ExactMul(FDiv(margin, sell), Num(100))
       /\ ExactAdd(fcPct, marginPct) )
       => FAdd(fcPct, marginPct) = Num(100)

\* C10 witness: a total of 8 over 4 portions at a price of 4 gives 50% and 50%.
C10_Witness ==
  /\ totalCost = Num(8) /\ portions = <<"4">> /\ sellingPrice = <<"4">>
  /\ cpp = Num(2) /\ fcPct = Num(50) /\ marginPct = Num(50)

\* C11: margin is the selling price minus the cost per portion, the selling
\* price being the input when that is a positive number; it may be negative; and
\* it is minus the cost per portion when the selling price is 0 or not set (or
\* an input that is not a positive number).
C11_MarginIsPriceLessCost ==
  /\ (IsFin(RawPrice) /\ FGt(RawPrice, Zero)) => margin = FSub(RawPrice, cpp)
  /\ (Trim(sellingPrice) = <<>> \/ ~IsFin(RawPrice) \/ FLe(RawPrice, Zero))
       => margin = Neg(cpp)

\* C11 witness: a cost per portion of 8 sold at 5 has a margin of -3, a negative
\* margin.
C11_Witness ==
  /\ sellingPrice = <<"5">> /\ cpp = Num(8)
  /\ margin = Num(-3) /\ FLt(margin, Zero)

\* C12: the target food cost percentage is clamped into [1, 99] before use, the
\* divisor target / 100 is never 0, and suggestedPrice is finite and strictly
\* positive whenever costPerPortion > 0, for every target input.
C12_SuggestedPriceFinitePositive ==
  /\ FLe(Num(1), target) /\ FLe(target, Num(99))
  /\ FGt(FDiv(target, Num(100)), Zero)
  /\ FGt(cpp, Zero) => (IsFin(suggestedPrice) /\ FGt(suggestedPrice, Zero))

\* Number(targetFC), and whether the Target food cost field is empty, blank or
\* not a finite number.
RawTarget == StringToNumber(targetFC)
TargetUnset == Trim(targetFC) = <<>> \/ ~IsFin(RawTarget)

\* C13: whenever the target food cost input is missing, empty or not a finite
\* number, the target used for the suggested price, and the target that saveMeta
\* writes, is the default 30.
C13_DefaultTargetThirty ==
  TargetUnset
    => /\ target = Num(30)
       /\ MetaPayload.target_food_cost_pct = Num(30)

\* C14: for every snapshot the costing completes, and each of totalCost,
\* costPerPortion, margin and suggestedPrice is a finite number while
\* foodCostPercent and marginPercent are each a finite number or null.
C14_FiguresFinite ==
  /\ IsFin(totalCost) /\ IsFin(cpp) /\ IsFin(margin) /\ IsFin(suggestedPrice)
  /\ fcPct = JNull \/ IsFin(fcPct)
  /\ marginPct = JNull \/ IsFin(marginPct)

\* C15: a line whose quantity is negative is costed as a quantity of 0, and
\* the total cost is not negative when no net unit cost is negative.
C15_NegativeQtyCostsNothing ==
  /\ \A k \in DOMAIN lines :
       (~Skipped(lines[k]) /\ FLt(lines[k].qty, Zero))
         => LineAdds(lines[k], ingredients) = Zero
  /\ (\A i \in ingredients : ~FLt(toNum(i.net_unit_cost, Zero), Zero))
       => ~FLt(totalCost, Zero)

\* Whether a recipe_lines row is well formed: an ingredient line names an
\* ingredient and has a quantity above 0, a group line has a title that is
\* not blank.
ValidLineRow(r) ==
  IF r.line_type = "ingredient"
  THEN ~Falsy(r.ingredient_id) /\ FGt(r.qty, Zero)
  ELSE r.group_title.t = "str" /\ Trim(r.group_title.s) # <<>>

RejectMessages ==
  { "Pick an ingredient first", "Qty must be > 0", "Write group title first",
    "Group title required", "Pick an ingredient" }

ValidatedWritesValid ==
  toastMsg \in {"Ingredient added", "Group added", "Group saved", "Line saved"}
    => ValidLineRow(lineWrite)

\* A well-formed table stays well formed.
ValidTablesStayValid ==
  [][(\A d \in dbLines : ValidLineRow(d)) => (\A d \in dbLines' : ValidLineRow(d))]_vars

\* Whether a number is an integer.
IsInteger(x) == IsFin(x) /\ (x.m = 0 \/ x.e >= 0)

\* C17: the recipe row saveMeta wrote has an integer number of portions of
\* at least 1, a target food cost between 1 and 99, and a selling price that
\* is null or not negative.
C17_SavedRecipeValid ==
  toastMsg = "Saved" =>
    /\ IsInteger(dbRecipe.portions) /\ FLe(Num(1), dbRecipe.portions)
    /\ FLe(Num(1), dbRecipe.target_food_cost_pct)
    /\ FLe(dbRecipe.target_food_cost_pct, Num(99))
    /\ dbRecipe.selling_price = JNull \/ FLe(Zero, dbRecipe.selling_price)

\* The same without the demand that the portions be an integer.
SavedRecipeInRange ==
  toastMsg = "Saved" =>
    /\ FLe(Num(1), dbRecipe.portions)
    /\ FLe(Num(1), dbRecipe.target_food_cost_pct)
    /\ FLe(dbRecipe.target_food_cost_pct, Num(99))
    /\ dbRecipe.selling_price = JNull \/ FLe(Zero, dbRecipe.selling_price)

\* C18: no list shows a recipe that was archived when the list was loaded, and
\* no step of the recipe lists removes a row of the recipes table.
C18_ArchiveIsSoftDelete ==
  /\ [](\A r \in rows \cup items : r.is_archived = FALSE)
  /\ [][\A r \in dbRecipes : \E n \in dbRecipes' : n.id = r.id]_vars

\* The list of Recipes.tsx shows no archived recipe.
RowsNotArchived == \A r \in rows : r.is_archived = FALSE

\* archive(id) keeps the row and sets its flag.
ArchiveKeepsRow ==
  [][rows' # rows => \A r \in dbRecipes : \E n \in dbRecipes' : n.id = r.id]_vars

\* No list shows an archived recipe.
ListsNotArchived == \A r \in rows \cup items : r.is_archived = FALSE

\* No step removes a row of the recipes table.
NoHardDelete == [][\A r \in dbRecipes : \E n \in dbRecipes' : n.id = r.id]_vars

\* Whether the loaded ingredient of that id is switched off.
Inactive(id) ==
  \E i \in ingredients : i.id = id /\ i.is_active = JBool(FALSE)

\* C19: an ingredient that is switched off is in neither picker, and a line
\* that refers to it is costed with its net unit cost and its pack unit.
C19_InactiveHiddenButCosted ==
  /\ \A i \in ingredients :
       i.is_active = JBool(FALSE) => i \notin activeIngredients /\ i \notin filteredIngredients
  /\ \A k \in DOMAIN lines :
       LET l == lines[k]
       IN (~Skipped(l) /\ Inactive(l.ingredient_id.s)) =>
            LET ing == CHOOSE i \in ingredients : i.id = l.ingredient_id.s
            IN LineAdds(l, ingredients)
                 = FMul(convertQtyToPackUnit(toNum(l.qty, Zero), l.unit,
                                             JStr(safeUnit(OrG(ing.pack_unit)))),
                        toNum(ing.net_unit_cost, Zero))

\* 500 g of i1 cost 2 while i1 is switched off and the search for "ox" shows
\* no ingredient.
C19_Witness ==
  /\ lines = <<Row(1, 1)>>
  /\ Inactive("i1")
  /\ ingSearch = <<"o", "x">>
  /\ filteredIngredients = {}
  /\ Cardinality(activeIngredients) = 1
  /\ totalCost = Num(2)

\* C20: no ingredient record is ever removed, so every ingredient a loaded
\* line refers to is among the loaded ingredients.
C20_ReferencedIngredientsRemain ==
  /\ \A i \in Catalogue : \E j \in dbIngredients : j.id = i.id
  /\ \A k \in DOMAIN lines :
       (IsIngredientLine(lines[k]) /\ ~Falsy(lines[k].ingredient_id)) => Resolves(lines[k])

\* A line but for its sort_order.
Unordered(l) == [l EXCEPT !.sort_order = 0]

\* C21: a moveLine whose writes all succeed leaves the reloaded list equal to
\* the previous one with the line and its neighbour exchanged, the stored
\* sort_order values being 10, 20, ... in that order; a moveLine off either
\* end of the list writes nothing and changes nothing.
C21_MoveSwapsNeighbours ==
  [][\A lineId \in {lines[k].id : k \in DOMAIN lines}, dir \in {-1, 1} :
       LET idx == IndexOf(lineId)
           j == idx + dir
       IN IF j < 1 \/ j > Len(lines)
          THEN MoveLineOf(lineId, dir)
                 => (dbLines' = dbLines /\ lines' = lines /\ toastMsg' = toastMsg)
          ELSE (toastMsg' = "Order saved" /\ MoveLineOf(lineId, dir)) =>
                 /\ Len(lines') = Len(lines)
                 /\ Unordered(lines'[idx]) = Unordered(lines[j])
                 /\ Unordered(lines'[j]) = Unordered(lines[idx])
                 /\ \A k \in DOMAIN lines \ {idx, j} : Unordered(lines'[k]) = Unordered(lines[k])
                 /\ \A k \in DOMAIN lines : lines'[k].sort_order = 10 * k
                 /\ dbLines' = {lines'[k] : k \in DOMAIN lines}]_vars

\* Three lines stored with one sort_order, the second moved up.
C21_Witness ==
  /\ toastMsg = "Order saved"
  /\ Len(lines) = 3
  /\ <<lines[1].id, lines[2].id, lines[3].id>> = <<2, 1, 3>>
  /\ <<lines[1].sort_order, lines[2].sort_order, lines[3].sort_order>> = <<10, 20, 30>>
  /\ dbLines = {lines[1], lines[2], lines[3]}

C29_CopyFollowsSource ==
  [][(toastMsg' = "Duplicated" /\ dbLines' # dbLines) =>
       \E a \in DOMAIN lines' :
         /\ a + 1 \in DOMAIN lines'
         /\ lines'[a + 1] = lineWrite'
         /\ lines'[a] \in dbLines
         /\ lines'[a].sort_order + 5 = lineWrite'.sort_order
         /\ lines'[a].line_type = lineWrite'.line_type
         /\ lineWrite'.line_type = "ingredient" =>
              /\ lineWrite'.ingredient_id = lines'[a].ingredient_id
              /\ lineWrite'.qty = lines'[a].qty
              /\ lineWrite'.unit = JStr(safeUnit(lines'[a].unit))
         /\ lineWrite'.line_type = "group" =>
              lineWrite'.group_title = lines'[a].group_title]_vars

\* The messages of the requests whose write failed.
FailMessages ==
  { "Add failed", "Add group failed", "Save line failed", "Delete failed",
    "Duplicate failed", "Reorder failed" }

\* A step that shows the message of a failed write.
ShowsFailure(msgs) == toastMsg' \in msgs /\ toastMsg' # toastMsg

\* C24: a request whose write fails leaves the list shown, the edit fields
\* and the search field as they were.
C24_FailedWriteKeepsList ==
  [][ShowsFailure(FailMessages)
       => (lines' = lines /\ edit' = edit /\ ingSearch' = ingSearch)]_vars

\* The same of the requests other than moveLine, which leave the table as well.
FailedWriteKeepsListButMove ==
  [][ShowsFailure(FailMessages \ {"Reorder failed"})
       => (lines' = lines /\ edit' = edit /\ ingSearch' = ingSearch /\ dbLines' = dbLines)]_vars

RowCostsSumToTotalWhenFinite ==
  (/\ edit = EditOf(lines)
   /\ \A k \in DOMAIN lines : IsFin(RowCost(lines[k])))
    => SumRowCosts(lines, Zero) = totalCost

\* Cook mode's index is a step of the method, or 0 when the method has no steps.
ActiveIdxInRange ==
  /\ IF totalSteps = 0 THEN activeIdx = 0 ELSE activeIdx \in 0..(totalSteps - 1)
  /\ ~cookErr => IF total = 0 THEN cookIdx = 0 ELSE cookIdx \in 0..(total - 1)

\* Prev on the first step and Next on the last one would set the index they find.
EndsStay ==
  /\ activeIdx = 0 => goPrev(activeIdx) = activeIdx
  /\ (totalSteps > 0 /\ activeIdx = totalSteps - 1) => goNext(activeIdx) = activeIdx

\* Every load that succeeds sets the index to 0.
LoadResetsIdx ==
  [][/\ (LoadRecipe /\ ~err') => activeIdx' = 0
     /\ (VariantLoad /\ ~cookErr') => cookIdx' = 0]_vars

\* The progress is 100 on the last step of a method and on no other step.
FullOnlyOnLast == progress = 100 <=> (totalSteps > 0 /\ activeIdx = totalSteps - 1)

\* C25: in cook mode the index is a step of the method (0 with no steps), Prev
\* on the first step and Next on the last leave it, and the progress shown is
\* 100 exactly when the active step is the last one, 0 with no steps.
C25_CookIndexAndProgress ==
  /\ ActiveIdxInRange
  /\ EndsStay
  /\ totalSteps = 0 => progress = 0
  /\ FullOnlyOnLast

\* The same of the methods of fewer than 200 steps.
FullOnlyOnLastOfShortMethods == totalSteps < ManySteps => FullOnlyOnLast

\* Step 199 of 200 is up, and reads 100%.
CookNearlyDone == totalSteps = ManySteps /\ activeIdx = ManySteps - 2 /\ progress = 100

\* C23: once every load of the editor has completed, the recipe, the lines,
\* the ingredients and the edit map are those of the rows of the current id,
\* as the most recently issued load read them.
C23_LatestLoadShown ==
  inFlight = {} =>
    /\ recipe = JId(routeId)
    /\ lines = OrderLines(LinesOf(routeId, dbLines))
    /\ edit = EditOf(lines)
    /\ ingredients = dbIngredients
    /\ portions = NumberToString(RecipeOf(routeId).portions)

\* The loads of a behaviour have all completed, the state set by the last issued.
LoadsSettled ==
  /\ inFlight = {} /\ issued = MaxLoads
  /\ recipe = JId(routeId) /\ lines = OrderLines(LinesOf(routeId, dbLines))

\* The busy flag of an operation, and of a line for saveRow.
Busy(op, line) ==
  CASE op = "saveMeta" -> savingMeta
    [] op = "uploadPhoto" -> uploading
    [] op = "addLineInline" -> savingAdd
    [] op = "addGroup" -> savingGroup
    [] op = "saveRow" -> RowBusy(line)
    [] op = "persistOrder" -> reorderSaving

InFlight(op, line) == \E q \in pending : q.op = op /\ q.line = line

\* The flags: one an operation, and one a line for saveRow.
Flags ==
  {<<op, 0>> : op \in BusyOps \ {"saveRow"}} \cup {<<"saveRow", k>> : k \in 1..MaxEditorLines}

\* A busy flag is set exactly while a call of its operation waits for a response.
BusyOnlyInFlight == \A f \in Flags : Busy(f[1], f[2]) <=> InFlight(f[1], f[2])

\* A busy flag that is set is cleared later.
BusyClears == \A f \in Flags : Busy(f[1], f[2]) ~> ~Busy(f[1], f[2])

\* C26: every operation that sets its busy flag clears it later, however its
\* requests end, and no busy flag is set while no call of its operation is
\* in flight.
C26_BusyFlagsClear == []BusyOnlyInFlight /\ BusyClears

\* A saveRow has failed and left its flag cleared while other calls wait.
C26_Witness ==
  /\ toastMsg = "Save line failed"
  /\ \E k \in DOMAIN rowSaving : ~rowSaving[k]
  /\ pending # {}

\* The steps shown have distinct order_index values, in ascending order.
Ascending(sq) == \A a, b \in DOMAIN sq : a < b => sq[a].order_index < sq[b].order_index

\* The steps shown are numbered 1..n in their order.
Numbered(sq) == \A k \in DOMAIN sq : sq[k].order_index = k

\* A deleteStep or moveStep whose writes succeed leaves the steps numbered 1..n.
ReorderNumbers ==
  [][\A stepId \in 1..MaxStepRows :
       /\ DeleteStepOk(stepId) => Numbered(stepRows')
       /\ \A dir \in {-1, 1} : MoveStepOk(stepId, dir) => Numbered(stepRows')]_vars

\* An addStep answered before anything else changed the steps keeps them ascending.
AddInTurnKeepsOrder ==
  [][\A c \in adding :
       (Ascending(stepRows) /\ c.order = nextOrder(stepRows) /\ AddStepOk(c))
         => Ascending(stepRows')]_vars

\* C27: an addStep, deleteStep or moveStep whose writes succeed leaves the
\* steps shown with distinct order_index values in ascending order, also when
\* addStep calls overlap, and a deleteStep or moveStep leaves them 1..n.
C27_StepsStayOrdered ==
  [][/\ \A c \in adding : (Ascending(stepRows) /\ AddStepOk(c)) => Ascending(stepRows')
     /\ \A stepId \in 1..MaxStepRows :
          /\ DeleteStepOk(stepId) => Numbered(stepRows')
          /\ \A dir \in {-1, 1} : MoveStepOk(stepId, dir) => Numbered(stepRows')]_vars

\* C28: once every update of the auto-saving editor has been answered, none
\* with an error, the stored recipe is the one shown.
C28_StoredIsShown == (saves = {} /\ errorMsg = "") => dbSaved = shown

\* The update sent last stores the recipe shown, whenever it is stored.
LatestUpdateStoresShown ==
  [][\A u \in saves : (u.n = saveCalls /\ UpdateStored(u)) => dbSaved' = shown']_vars

====
